---- MODULE Spec2Model ----
(***************************************************************************)
(* Model of msacco_api/database/database.py: the CBSDatabase session       *)
(* (connection, write accounting, implicit-commit guard, commit hooks,     *)
(* rollback observers, savepoints) together with the SQL backend it talks  *)
(* to.  Every method is a function from a session record to a session      *)
(* record; an exception is the field exc, and a step that finds exc set    *)
(* does nothing, which is how a Python exception skips the rest of the     *)
(* callers' bodies.  One action of Next is one call made by the            *)
(* application.                                                            *)
(***************************************************************************)
EXTENDS Integers, Sequences, FiniteSets, TLC

VARIABLES
    conn,                         \* self._conn is not None
    cursor,                       \* self._cursor is a cursor, not None
    value_cache,                  \* self.value_cache
    transaction_writes,           \* self.transaction_writes
    auto_commit_on_many_writes,   \* self.auto_commit_on_many_writes
    before_commit,                \* frappe.local.before_commit
    rollback_observers,           \* frappe.local.rollback_observers
    realtime_log,                 \* frappe.local.realtime_log
    enqueue_after_commit,         \* frappe.flags.enqueue_after_commit
    txn,                          \* backend: the open transaction, oldest first
    committed,                    \* backend: number of committed writes
    handles,                      \* backend: connections opened by the session and not closed
    scope,                        \* the savepoint() context managers entered and not left, outermost first
    issued,                       \* ghost: writes counted since the last COMMIT / full ROLLBACK that the backend executed
    last                          \* the last call made by the application and what it did

vars == <<conn, cursor, value_cache, transaction_writes, auto_commit_on_many_writes,
          before_commit, rollback_observers, realtime_log, enqueue_after_commit, txn,
          committed, handles, scope, issued, last>>

----------------------------------------------------------------------------
(* Bounds of the model. *)

\* CBSDatabase.MAX_WRITES_PER_TRANSACTION is 200_000 in the source; the model
\* scales the ceiling down, and no formula depends on its value.
MAX_WRITES_PER_TRANSACTION == 2

\* Writes counted since the last transaction boundary (caps the counter).
MaxIssued == 3

\* Writes the backend ever holds, committed and pending together.
MaxRows == 3

\* Lengths of the registries.
MaxHooks == 2

MaxObservers == 2

MaxQueue == 1

\* Savepoint markers in the open backend transaction.
MaxSavepoints == 1

\* Connections the session has opened and not closed.
MaxHandles == 2

\* savepoint() context managers open at a time.
MaxScopes == 2

\* Entries of a list of names given to a lookup.
MaxNames == 3

----------------------------------------------------------------------------
(* Statements.  A statement is its leading keyword and, for the savepoint  *)
(* statements, the savepoint's name; a select by a name has that name.     *)

Q(kw, arg) == [kw |-> kw, arg |-> arg]

\* The name of a document that is in no table: a select by it matches no row.
Absent == "absent"

WriteTypes == {"insert", "update", "delete"}

ImplicitCommitTypes == {"start", "alter", "drop", "create", "begin", "truncate"}

BoundaryTypes == {"commit", "rollback"}

SavepointNames == {"a", "b"}

Hooks == {"h1", "h2"}

Observers == {"o1", "o2", "o3"}

\* hasattr(obj, "on_rollback")
HasOnRollback(o) == o \in {"o1", "o2"}

RealtimeItems == {"r1"}

Jobs == {"j1"}

\* The statements the application passes to sql() itself; the savepoint
\* statements reach sql() through savepoint(), release_savepoint() and rollback().
Statements ==
    {Q(k, "") : k \in WriteTypes \cup ImplicitCommitTypes \cup {"select", "commit", "rollback"}}

NoExc == "none"

Ev(e, kw, arg) == [e |-> e, kw |-> kw, arg |-> arg]

Emit(s, ev) == [s EXCEPT !.log = Append(@, ev)]

Raise(s, e) == [s EXCEPT !.exc = e]

\* A step that can raise: it does when it is the failAt-th such step of the call.
Tick(s) == [s EXCEPT !.n = @ + 1]

Fails(s) == s.n + 1 = s.failAt

----------------------------------------------------------------------------
(* The backend. *)

IsWriteEntry(x) == x = "w"

RECURSIVE NumWrites(_)
NumWrites(t) ==
    IF t = <<>> THEN 0
    ELSE (IF IsWriteEntry(Head(t)) THEN 1 ELSE 0) + NumWrites(Tail(t))

NumMarkers(t) == Len(t) - NumWrites(t)

\* Position of the last marker of savepoint name in t, 0 when there is none.
LastMarker(t, name) ==
    LET at == {i \in 1..Len(t) : t[i] = name}
    IN  IF at = {} THEN 0 ELSE CHOOSE i \in at : \A j \in at : j <= i

\* ROLLBACK TO SAVEPOINT name: what followed the marker is undone, the marker stays.
BackendRollbackTo(t, name) == SubSeq(t, 1, LastMarker(t, name))

\* RELEASE SAVEPOINT name: the marker and the markers set after it go, the writes stay.
BackendRelease(t, name) ==
    LET m == LastMarker(t, name)
        keep == {i \in 1..Len(t) : i < m \/ IsWriteEntry(t[i])}
        F[i \in 0..Len(t)] ==
            IF i = 0 THEN <<>>
            ELSE IF i \in keep THEN Append(F[i - 1], t[i]) ELSE F[i - 1]
    IN  F[Len(t)]

\* The statement is refused by the backend whatever the oracle says.
BackendRefuses(s, q) ==
    /\ q.kw \in {"release", "rollback"}
    /\ q.arg # ""
    /\ LastMarker(s.txn, q.arg) = 0

\* The effect of a statement the backend executed.
BackendApply(s, q) ==
    CASE q.kw \in WriteTypes ->
            [s EXCEPT !.txn = Append(@, "w")]
      [] q.kw = "commit" ->
            [s EXCEPT !.committed = @ + NumWrites(s.txn), !.txn = <<>>, !.issued = 0]
      [] q.kw = "rollback" /\ q.arg = "" ->
            [s EXCEPT !.txn = <<>>, !.issued = 0]
      [] q.kw = "rollback" /\ q.arg # "" ->
            [s EXCEPT !.txn = BackendRollbackTo(@, q.arg)]
      [] q.kw = "savepoint" ->
            [s EXCEPT !.txn = Append(@, q.arg)]
      [] q.kw = "release" ->
            [s EXCEPT !.txn = BackendRelease(@, q.arg)]
      [] q.kw = "select" ->
            [s EXCEPT !.seen = s.committed + NumWrites(s.txn)]
      [] q.kw \in ImplicitCommitTypes /\ s.implicit ->
            [s EXCEPT !.committed = @ + NumWrites(s.txn), !.txn = <<>>]
      [] OTHER -> s

\* The errors of the backend a call can tell apart: one that is_missing_column,
\* is_table_missing or cant_drop_field_or_key recognises, which the driver
\* raises as a ProgrammingError or not, and any other.
MissingKinds == {"missing", "missing_programming"}

ProgrammingKinds == {"missing_programming"}

FailKinds == {"error"} \cup MissingKinds

DbTypes == {"mariadb", "postgres"}

\* self._cursor.execute(query, values) and the except clause around it.
Execute(s, q, ignore_ddl) ==
    IF s.exc # NoExc THEN s
    ELSE IF ~s.cursor THEN Raise(s, "AttributeError")
    ELSE IF Fails(s) \/ BackendRefuses(s, q)
    THEN LET f == Emit(Tick(s), Ev("execfail", q.kw, q.arg))
             kind == IF Fails(s) THEN s.failKind ELSE "error"
         IN  IF s.db_type = "postgres" THEN Raise(f, "DatabaseError")
             ELSE IF kind \in ProgrammingKinds THEN Raise(f, "DatabaseError")
             ELSE IF ~(ignore_ddl /\ kind \in MissingKinds) THEN Raise(f, "DatabaseError")
             ELSE f
    ELSE BackendApply(Emit(Tick(s), Ev("exec", q.kw, q.arg)), q)

----------------------------------------------------------------------------
(* The session. *)

\* msacco_api.database.utils.is_query_type: the statement's leading keyword is one of types.
is_query_type(q, types) == q.kw \in types

connect(s) ==
    IF s.exc # NoExc THEN s
    ELSE IF Fails(s) THEN Raise(Emit(Tick(s), Ev("connectfail", "", "")), "ConnectionError")
    ELSE [Emit(Tick(s), Ev("connect", "", "")) EXCEPT
             !.conn = TRUE, !.cursor = TRUE, !.obs = <<>>,
             !.handles = @ + 1, !.txn = <<>>]

\* The guard with "truncate" left out of its tuple of statement types.
check_implicit_commit_no_truncate(s, q) ==
    IF s.exc # NoExc THEN s
    ELSE IF s.tw # 0 /\ is_query_type(q, ImplicitCommitTypes \ {"truncate"})
    THEN Raise(s, "ImplicitCommitError")
    ELSE s

\* The guard clearing the write counter as it rejects the statement.
check_implicit_commit_resets(s, q) ==
    IF s.exc # NoExc THEN s
    ELSE IF s.tw # 0 /\ is_query_type(q, ImplicitCommitTypes)
    THEN Raise([s EXCEPT !.tw = 0], "ImplicitCommitError")
    ELSE s

check_implicit_commit(s, q) ==
    IF s.exc # NoExc THEN s
    ELSE IF s.tw # 0 /\ is_query_type(q, ImplicitCommitTypes)
    THEN Raise(s, "ImplicitCommitError")
    ELSE s

clear_db_table_cache(s, q) ==
    IF s.exc # NoExc THEN s
    ELSE IF is_query_type(q, {"drop", "create"})
    THEN Emit(s, Ev("clear_db_tables", "", ""))
    ELSE s

\* The hook loop catching a hook's exception and going on.
RECURSIVE CallHooksSwallowing(_, _)
CallHooksSwallowing(s, hs) ==
    IF s.exc # NoExc \/ hs = <<>> THEN s
    ELSE IF Fails(s) THEN CallHooksSwallowing(Emit(Tick(s), Ev("hookfail", "", Head(hs))), Tail(hs))
    ELSE CallHooksSwallowing(Emit(Tick(s), Ev("hook", "", Head(hs))), Tail(hs))

\* for method in frappe.local.before_commit: frappe.call(...)
RECURSIVE CallHooks(_, _)
CallHooks(s, hs) ==
    IF s.exc # NoExc \/ hs = <<>> THEN s
    ELSE IF Fails(s) THEN Raise(Emit(Tick(s), Ev("hookfail", "", Head(hs))), "HookError")
    ELSE CallHooks(Emit(Tick(s), Ev("hook", "", Head(hs))), Tail(hs))

RECURSIVE EmitAll(_, _, _)
EmitAll(s, e, items) ==
    IF items = <<>> THEN s
    ELSE EmitAll(Emit(s, Ev(e, "", Head(items))), e, Tail(items))

flush_realtime_log(s) ==
    IF s.exc # NoExc THEN s
    ELSE [EmitAll(s, "emit", s.rt) EXCEPT !.rt = <<>>]

enqueue_jobs_after_commit(s) ==
    IF s.exc # NoExc THEN s
    ELSE IF Len(s.jobs) > 0
    THEN [EmitAll(s, "enqueue", s.jobs) EXCEPT !.jobs = <<>>]
    ELSE s

flush_local_link_count(s) ==
    IF s.exc # NoExc THEN s ELSE Emit(s, Ev("flush_link_count", "", ""))

ResetObservers(s) ==
    IF s.exc # NoExc THEN s
    ELSE [Emit(s, Ev("reset_observers", "", "")) EXCEPT !.obs = <<>>]

\* dict.fromkeys(frappe.local.rollback_observers): first occurrences, in order.
RECURSIVE Dedup(_)
Dedup(xs) ==
    IF xs = <<>> THEN <<>>
    ELSE LET d == Dedup(SubSeq(xs, 1, Len(xs) - 1))
             x == xs[Len(xs)]
         IN  IF \E i \in 1..Len(d) : d[i] = x THEN d ELSE Append(d, x)

RECURSIVE NotifyObservers(_, _)
NotifyObservers(s, os) ==
    IF s.exc # NoExc \/ os = <<>> THEN s
    ELSE IF HasOnRollback(Head(os))
    THEN NotifyObservers(Emit(s, Ev("on_rollback", "", Head(os))), Tail(os))
    ELSE NotifyObservers(s, Tail(os))

RECURSIVE sql(_, _, _, _, _)
RECURSIVE commit(_)

begin(s) == sql(s, Q("start", ""), TRUE, FALSE, FALSE)

\* commit() that begins no transaction after the COMMIT.
commit_without_begin(s) ==
    LET s1 == CallHooks(s, s.hooks)
        s2 == sql(s1, Q("commit", ""), TRUE, FALSE, FALSE)
        s4 == ResetObservers(s2)
        s5 == flush_realtime_log(s4)
        s6 == enqueue_jobs_after_commit(s5)
    IN  flush_local_link_count(s6)

commit(s) ==
    LET s1 == CallHooks(s, s.hooks)
        s2 == sql(s1, Q("commit", ""), TRUE, FALSE, FALSE)
        s3 == begin(s2)
        s4 == ResetObservers(s3)
        s5 == flush_realtime_log(s4)
        s6 == enqueue_jobs_after_commit(s5)
    IN  flush_local_link_count(s6)

\* The ceiling branch committing without beginning the next transaction.
TooManyWrites_without_begin(s) ==
    IF s.auto
    THEN commit_without_begin(Emit(s, Ev("many_writes_commit", "", "")))
    ELSE Raise(s, "TooManyWritesError")

\* The ceiling branch of check_transaction_status.
TooManyWrites(s) ==
    IF s.auto
    THEN commit(Emit(s, Ev("many_writes_commit", "", "")))
    ELSE Raise(s, "TooManyWritesError")

CountWrite(s) ==
    LET c == [s EXCEPT !.tw = @ + 1, !.issued = @ + 1]
    IN  IF c.tw > MAX_WRITES_PER_TRANSACTION THEN TooManyWrites(c) ELSE c

\* The counter is set to zero: from a count of writes, or from zero.
ResetWrites(s) ==
    [Emit(s, Ev("reset_writes", "", IF s.tw > 0 THEN "writes" ELSE "")) EXCEPT !.tw = 0]

\* check_transaction_status leaving the counter as it is at a commit or rollback.
check_transaction_status_without_reset(s, q) ==
    LET s1 == check_implicit_commit(s, q)
    IN  IF s1.exc = NoExc /\ q.kw \in WriteTypes THEN CountWrite(s1) ELSE s1

check_transaction_status(s, q) ==
    LET s1 == check_implicit_commit(s, q)
        s2 == IF s1.exc = NoExc /\ is_query_type(q, BoundaryTypes)
              THEN ResetWrites(s1)
              ELSE s1
    IN  IF s2.exc = NoExc /\ q.kw \in WriteTypes THEN CountWrite(s2) ELSE s2

\* self._cursor.description: the cursor describes a result when the last
\* statement it was passed is a select that the backend executed.
Described(s) ==
    LET at == {i \in 1..Len(s.log) : s.log[i].e \in {"exec", "execfail"}}
        ev == s.log[CHOOSE i \in at : \A j \in at : j <= i]
    IN  at # {} /\ ev.e = "exec" /\ ev.kw = "select"

\* The end of sql(): () when the cursor describes no result, the rows
\* fetched otherwise, none when the select matches no row.
Returned(s, q) ==
    IF s.exc # NoExc THEN s
    ELSE [s EXCEPT !.ret = IF Described(s) /\ q.arg # Absent THEN "rows" ELSE "empty"]

\* sql() connecting the session after the transaction checks, right before
\* the execution.
sql_connecting_late(s, q, run, auto_commit, ignore_ddl) ==
    IF s.exc # NoExc THEN s
    ELSE IF ~run THEN [s EXCEPT !.ret = "query"]
    ELSE
    LET s2 == check_transaction_status(s, q)
        s3 == clear_db_table_cache(s2, q)
        s4 == IF auto_commit THEN commit(s3) ELSE s3
        s1 == IF s4.exc = NoExc /\ ~s4.conn THEN connect(s4) ELSE s4
        s5 == Execute(s1, q, ignore_ddl)
        s6 == IF auto_commit THEN commit(s5) ELSE s5
    IN  Returned(s6, q)

\* sql() committing for auto_commit before the transaction checks.
sql_committing_first(s, q, run, auto_commit, ignore_ddl) ==
    IF s.exc # NoExc THEN s
    ELSE IF ~run THEN [s EXCEPT !.ret = "query"]
    ELSE
    LET s1 == IF ~s.conn THEN connect(s) ELSE s
        s4 == IF auto_commit THEN commit(s1) ELSE s1
        s2 == check_transaction_status(s4, q)
        s3 == clear_db_table_cache(s2, q)
        s5 == Execute(s3, q, ignore_ddl)
        s6 == IF auto_commit THEN commit(s5) ELSE s5
    IN  Returned(s6, q)

sql(s, q, run, auto_commit, ignore_ddl) ==
    IF s.exc # NoExc THEN s
    ELSE IF ~run THEN [s EXCEPT !.ret = "query"]
    ELSE
    LET s1 == IF ~s.conn THEN connect(s) ELSE s
        s2 == check_transaction_status(s1, q)
        s3 == clear_db_table_cache(s2, q)
        s4 == IF auto_commit THEN commit(s3) ELSE s3
        s5 == Execute(s4, q, ignore_ddl)
        s6 == IF auto_commit THEN commit(s5) ELSE s5
    IN  Returned(s6, q)

savepoint(s, save_point) == sql(s, Q("savepoint", save_point), TRUE, FALSE, FALSE)

release_savepoint(s, save_point) == sql(s, Q("release", save_point), TRUE, FALSE, FALSE)

\* rollback() looping over the observer list itself, not over dict.fromkeys of it.
rollback_no_dedup(s, save_point) ==
    IF save_point # ""
    THEN sql(s, Q("rollback", save_point), TRUE, FALSE, FALSE)
    ELSE LET s1 == sql(s, Q("rollback", ""), TRUE, FALSE, FALSE)
             s2 == begin(s1)
             s3 == NotifyObservers(s2, s2.obs)
         IN  ResetObservers(s3)

\* rollback() that begins no transaction after the ROLLBACK.
rollback_without_begin(s, save_point) ==
    IF save_point # ""
    THEN sql(s, Q("rollback", save_point), TRUE, FALSE, FALSE)
    ELSE LET s1 == sql(s, Q("rollback", ""), TRUE, FALSE, FALSE)
             s3 == NotifyObservers(s1, Dedup(s1.obs))
         IN  ResetObservers(s3)

\* rollback() releasing the savepoint it is asked to roll back to.
rollback_releases(s, save_point) ==
    IF save_point # ""
    THEN sql(s, Q("release", save_point), TRUE, FALSE, FALSE)
    ELSE LET s1 == sql(s, Q("rollback", ""), TRUE, FALSE, FALSE)
             s2 == begin(s1)
             s3 == NotifyObservers(s2, Dedup(s2.obs))
         IN  ResetObservers(s3)

\* rollback() ignoring its save_point argument.
rollback_always_full(s, save_point) ==
    LET s1 == sql(s, Q("rollback", ""), TRUE, FALSE, FALSE)
        s2 == begin(s1)
        s3 == NotifyObservers(s2, Dedup(s2.obs))
    IN  ResetObservers(s3)

rollback(s, save_point) ==
    IF save_point # ""
    THEN sql(s, Q("rollback", save_point), TRUE, FALSE, FALSE)
    ELSE LET s1 == sql(s, Q("rollback", ""), TRUE, FALSE, FALSE)
             s2 == begin(s1)
             s3 == NotifyObservers(s2, Dedup(s2.obs))
         IN  ResetObservers(s3)

\* db.sql_ddl(query): commit, then the statement.
sql_ddl(s, q) == sql(commit(s), q, TRUE, FALSE, FALSE)

close(s) ==
    IF s.conn
    THEN [Emit(s, Ev("close", "", "")) EXCEPT
             !.conn = FALSE, !.cursor = FALSE, !.handles = @ - 1, !.txn = <<>>]
    ELSE s

----------------------------------------------------------------------------
(* The lookup interface.  The table holds one row, whose value is the      *)
(* number of writes visible to the reader; a lookup is a select of it.     *)

Doctype == "T"

\* An entry of a list of names: a name, the empty string, or None.
NoneKey == "None"

Keys == {"a", "b", "", NoneKey}

\* filter(None, names): the entries that are true, in their order.
Truthy(names) ==
    LET IsTrue(k) == k # "" /\ k # NoneKey
    IN  SelectSeq(names, IsTrue)

ByList(names) == [kind |-> "list", val |-> "", names |-> names]

\* A mapping of one entry, column: [operator, operand]; the operand of in
\* and not in is a collection.
ByClause(operator, operand) == [kind |-> "dict", val |-> operator, names |-> operand]

\* filters: the name of a document, a mapping, a list of names or None.
Filters ==
    {[kind |-> "str", val |-> "x", names |-> <<>>],
     ByClause("=", <<"x">>),
     ByList(<<"a">>), ByList(<<>>),
     [kind |-> "none", val |-> "", names |-> <<>>]}

\* fieldname: a column name, "*", or a list of column names.
FieldList == "[name, value]"

Fieldnames == {"name", "*", FieldList}

\* CBSDatabase.DEFAULT_COLUMNS: the columns every table has.
DEFAULT_COLUMNS == <<"name", "creation", "modified", "modified_by", "owner", "docstatus", "idx">>

\* The number of columns of a row selected by fieldname.
Width(fieldname) ==
    IF fieldname = "*" THEN Len(DEFAULT_COLUMNS)
    ELSE IF fieldname = FieldList THEN Len(<<"name", "value">>)
    ELSE Len(<<fieldname>>)

\* The form of the rows of a result: their width, and whether they are
\* mappings (as_dict) or tuples.
Form(width, as_dict) == [width |-> width, dict |-> as_dict]

NoForm == Form(0, FALSE)

\* A tuple holding a list cannot be hashed.
Hashable(fieldname) == fieldname # FieldList

CacheKey(doctype, filters, fieldname) == <<doctype, filters, fieldname>>

\* What a lookup returns or stores: ret says what it is, seen the value read.
Out(s) == [ret |-> s.ret, seen |-> s.seen, form |-> s.form]

Store(vc, key, out) == [k \in DOMAIN vc \cup {key} |-> IF k = key THEN out ELSE vc[k]]

\* frappe.cbs_qb.engine.get_query(...).run(...): the select built from the
\* filters, executed through sql().
Shaped(r, form) == IF r.exc = NoExc /\ r.ret = "rows" THEN [r EXCEPT !.form = form] ELSE r

run_query(s, where, form, run) == Shaped(sql(s, Q("select", where), run, FALSE, FALSE), form)

NoFilters == [kind |-> "none", val |-> "", names |-> <<>>]

AlwaysFalse == [op |-> "false", values |-> <<>>]

AlwaysTrue == [op |-> "true", values |-> <<>>]

\* The filter translator of the query builder: the predicate of the entry of
\* a mapping.  in on an empty collection is always false, not in on an empty
\* collection always true; filters of another kind are not its concern.
Predicate(filters) ==
    IF filters.kind # "dict" THEN [op |-> "", values |-> <<>>]
    ELSE IF filters.val = "in" /\ filters.names = <<>> THEN AlwaysFalse
    ELSE IF filters.val = "not in" /\ filters.names = <<>> THEN AlwaysTrue
    ELSE [op |-> filters.val, values |-> filters.names]

\* The name the query selects by: the name looked up when no row has it, as
\* when the predicate is always false.
Where(filters) ==
    IF filters.val = Absent \/ Predicate(filters) = AlwaysFalse THEN Absent ELSE ""

\* frappe.cbs_qb.engine.get_query(table, filters=filters, ...): the query is
\* built with the predicate of the filters.
build(s, filters) ==
    [Emit(s, Ev("get_query", Predicate(filters).op, "")) EXCEPT
        !.keys = Predicate(filters).values]

\* frappe.cbs_qb.engine.get_query(...): the query is built; for a lookup by
\* a list of names, names are the keys of its IN clause.
get_query(s, names) == [Emit(s, Ev("get_query", "", "")) EXCEPT !.keys = names]

\* _get_values_from_table building its query without the filters.
_get_values_from_table_unfiltered(s, fields, filters, as_dict, run) ==
    run_query(build(s, NoFilters), Where(NoFilters),
              Form(Width(fields), as_dict \/ fields = "*"), run)

_get_values_from_table(s, fields, filters, as_dict, run) ==
    run_query(build(s, filters), Where(filters),
              Form(Width(fields), as_dict \/ fields = "*"), run)

\* _get_value_for_many_names handing get_query the list as it came.
_get_value_for_many_names_unfiltered(s, names, field, as_dict, run) ==
    IF Truthy(names) # <<>>
    THEN run_query(get_query(s, names), "", Form(Width(field), as_dict), run)
    ELSE [s EXCEPT !.ret = "empty"]

\* _get_value_for_many_names testing the list as it came, not what is left
\* of it.
_get_value_for_many_names_any(s, names, field, as_dict, run) ==
    IF names # <<>>
    THEN run_query(get_query(s, Truthy(names)), "", Form(Width(field), as_dict), run)
    ELSE [s EXCEPT !.ret = "empty"]

_get_value_for_many_names(s, names, field, as_dict, run) ==
    IF Truthy(names) # <<>>
    THEN run_query(get_query(s, Truthy(names)), "", Form(Width(field), as_dict), run)
    ELSE [s EXCEPT !.ret = "empty"]

\* The except clause of the lookup: with ignore, a missing table or column
\* gives no result instead of the error.
IgnoreMissing(r, ignore) ==
    IF ignore /\ r.exc = "DatabaseError" /\ r.failKind \in MissingKinds
    THEN [r EXCEPT !.exc = NoExc, !.ret = "none"]
    ELSE r

\* The lookup part of get_values, between the cache test and the cache store.
Lookup(s, filters, fieldname, as_dict, ignore, run) ==
    IF filters.kind = "list"
    THEN _get_value_for_many_names(s, filters.names, fieldname, as_dict, run)
    ELSE IgnoreMissing(_get_values_from_table(s, fieldname, filters, as_dict, run), ignore)

\* The cache hit: the stored value is returned as it is.
Cached(s, out) == [s EXCEPT !.ret = out.ret, !.seen = out.seen, !.form = out.form]

\* The end of get_values: the result r of the lookup is stored under key
\* when the call is keyed, and returned.
CacheOut(r, keyed, key) ==
    IF keyed /\ r.exc = NoExc THEN [r EXCEPT !.vc = Store(@, key, Out(r))] ELSE r

\* get_values with the store under an existing key left out of the test: the
\* cache is consulted only when it holds nothing.
get_values_refreshing(s, doctype, filters, fieldname, as_dict, cache, ignore, run) ==
    LET keyed == cache /\ filters.kind = "str"
        key == CacheKey(doctype, filters, fieldname)
    IN  IF keyed /\ ~Hashable(fieldname) THEN Raise(s, "TypeError")
        ELSE CacheOut(Lookup(s, filters, fieldname, as_dict, ignore, run), keyed, key)

\* get_values consulting the cache whatever the cache flag says.
get_values_always_cached(s, doctype, filters, fieldname, as_dict, cache, ignore, run) ==
    LET keyed == cache /\ filters.kind = "str"
        key == CacheKey(doctype, filters, fieldname)
    IN  IF keyed /\ ~Hashable(fieldname) THEN Raise(s, "TypeError")
        ELSE IF Hashable(fieldname) /\ key \in DOMAIN s.vc
        THEN Cached(s, s.vc[key])
        ELSE CacheOut(Lookup(s, filters, fieldname, as_dict, ignore, run), keyed, key)

\* get_values keying the cache by any filter, not by a string filter only.
get_values_caching_any_filter(s, doctype, filters, fieldname, as_dict, cache, ignore, run) ==
    LET keyed == cache
        key == CacheKey(doctype, filters, fieldname)
    IN  IF keyed /\ ~Hashable(fieldname) THEN Raise(s, "TypeError")
        ELSE IF keyed /\ key \in DOMAIN s.vc
        THEN Cached(s, s.vc[key])
        ELSE CacheOut(Lookup(s, filters, fieldname, as_dict, ignore, run), keyed, key)

\* get_values taking a stored None for a missing entry.
get_values_hit_if_value(s, doctype, filters, fieldname, as_dict, cache, ignore, run) ==
    LET keyed == cache /\ filters.kind = "str"
        key == CacheKey(doctype, filters, fieldname)
    IN  IF keyed /\ ~Hashable(fieldname) THEN Raise(s, "TypeError")
        ELSE IF keyed /\ key \in DOMAIN s.vc /\ s.vc[key].ret # "none"
        THEN Cached(s, s.vc[key])
        ELSE CacheOut(Lookup(s, filters, fieldname, as_dict, ignore, run), keyed, key)

get_values(s, doctype, filters, fieldname, as_dict, cache, ignore, run) ==
    LET keyed == cache /\ filters.kind = "str"
        key == CacheKey(doctype, filters, fieldname)
    IN  IF keyed /\ ~Hashable(fieldname) THEN Raise(s, "TypeError")
        ELSE IF keyed /\ key \in DOMAIN s.vc
        THEN Cached(s, s.vc[key])
        ELSE CacheOut(Lookup(s, filters, fieldname, as_dict, ignore, run), keyed, key)

\* The end of get_value: of the result r of get_values, the first row or its
\* first item; the result as it is when the query was not run.
\* A result of get_values that is the text of a query has characters for
\* rows; the first of a row that is a mapping is its item of key 0.
FirstRow(r, as_dict, run) ==
    IF r.exc # NoExc \/ ~run THEN r
    ELSE IF r.ret \in {"none", "empty"} THEN [r EXCEPT !.ret = "none", !.form = NoForm]
    ELSE IF r.ret = "query" THEN [r EXCEPT !.ret = "char"]
    ELSE IF r.form.width > 1 \/ as_dict THEN [r EXCEPT !.ret = "row"]
    ELSE IF r.form.dict THEN Raise(r, "KeyError")
    ELSE [r EXCEPT !.ret = "scalar"]

\* get_value: the first row of get_values(limit=1), or its first item.
get_value(s, doctype, filters, fieldname, as_dict, cache, ignore, run) ==
    FirstRow(get_values(s, doctype, filters, fieldname, as_dict, cache, ignore, run),
             as_dict, run)

\* db.exists(dt, dn, cache=): the name of the document, None when there is none;
\* a document that is named as its doctype is a single and always exists.
exists(s, dt, dn, cache) ==
    IF dn.kind = "str" /\ dt # "DocType" /\ dt = dn.val
    THEN [s EXCEPT !.ret = "scalar"]
    ELSE get_value(s, dt, dn, "name", FALSE, cache, TRUE, TRUE)

\* What a body run under the context manager can raise, NoExc when it completes.
BodyOutcomes == {NoExc, "DuplicateError", "ValueError"}

\* catch=Exception, the default, covers every failure.
AllExceptions ==
    {"DuplicateError", "ValueError", "DatabaseError", "ConnectionError",
     "ImplicitCommitError", "TooManyWritesError", "HookError", "TypeError"}

Catches == {AllExceptions, {"DuplicateError"}}

\* The names random.sample draws for the context manager's savepoints.
ScopeNames == {"s1", "s2", "s3"}

\* The generator ended without yielding: contextlib raises RuntimeError,
\* unless the rollback r itself raised.
DidNotYield(r) == IF r.exc = NoExc THEN Raise(r, "RuntimeError") ELSE r

\* The except clause reached on entry: s1 is the session after savepoint();
\* a failure of it that catch covers is answered by the rollback to the
\* savepoint.
EntryCaught(s1, name, catch) ==
    IF s1.exc # NoExc /\ s1.exc \in catch
    THEN DidNotYield(rollback([s1 EXCEPT !.exc = NoExc], name))
    ELSE s1

\* with savepoint(catch): up to the yield.  savepoint() is called inside the
\* try block, so its failure, when catch covers it, runs the except clause;
\* the generator then ends without a yield, which contextlib reports as a
\* RuntimeError.
savepoint_enter(s, name, catch) == EntryCaught(savepoint(s, name), name, catch)

\* The context manager releasing the savepoint whatever the body did.
savepoint_exit_always_release(s, name, body_exc, catch) ==
    release_savepoint(s, name)

\* The context manager rolling back to the savepoint whatever the body raised.
savepoint_exit_catching_all(s, name, body_exc, catch) ==
    IF body_exc = NoExc THEN release_savepoint(s, name)
    ELSE rollback(s, name)

\* with savepoint(catch): from the yield on; body_exc is what the body raised.
savepoint_exit(s, name, body_exc, catch) ==
    IF body_exc = NoExc THEN release_savepoint(s, name)
    ELSE IF body_exc \in catch THEN rollback(s, name)
    ELSE Raise(s, body_exc)

----------------------------------------------------------------------------
(* Calls.  Session(o) is the session as a call finds it, o the oracle of   *)
(* the call: which fallible step (connect, hook, execute) fails, how, and  *)
(* whether the backend commits implicitly on a DDL statement.              *)

NoFail == [failAt |-> 0, failKind |-> "error", db_type |-> "mariadb", implicit |-> FALSE]

Session(o) ==
    [conn |-> conn, cursor |-> cursor, vc |-> value_cache, handles |-> handles,
     seen |-> 0, tw |-> transaction_writes, auto |-> auto_commit_on_many_writes,
     hooks |-> before_commit, obs |-> rollback_observers, rt |-> realtime_log,
     jobs |-> enqueue_after_commit, txn |-> txn, committed |-> committed,
     issued |-> issued, log |-> <<>>, exc |-> NoExc, ret |-> "none", n |-> 0,
     keys |-> <<>>, form |-> NoForm,
     failAt |-> o.failAt, failKind |-> o.failKind, db_type |-> o.db_type,
     implicit |-> o.implicit]

\* The oracles of a call that takes steps fallible steps when nothing fails.
\* With faults, any one of these steps may fail; the kind of failure and the
\* backend's flavour are drawn only where the call can tell them apart.
Oracles(steps, ignore_ddl, faults) ==
    [failAt : {0}, failKind : {"error"}, db_type : {"mariadb"},
     implicit : IF NumWrites(txn) > 0 THEN BOOLEAN ELSE {FALSE}]
    \cup [failAt : IF faults THEN 1..steps ELSE {},
          failKind : IF ignore_ddl THEN FailKinds ELSE {"error"},
          db_type : IF ignore_ddl THEN DbTypes ELSE {"mariadb"},
          implicit : {FALSE}]

Call(op, q, opts) ==
    [op |-> op, kw |-> q.kw, arg |-> q.arg, opts |-> opts, names |-> <<>>]

\* The call of a lookup, names the list of names it was given.
LookupCall(op, filters, opts) ==
    [Call(op, Q(filters.kind, filters.val), opts) EXCEPT !.names = filters.names]

Has(log, e) == \E i \in 1..Len(log) : log[i].e = e

\* The error the backend raised in a call, when it raised one, and its flavour.
NoFault == [kind |-> "", db_type |-> ""]

Fault(r) ==
    IF Has(r.log, "execfail") /\ r.n >= r.failAt /\ r.failAt > 0
    THEN [kind |-> r.failKind, db_type |-> r.db_type]
    ELSE NoFault

NoCall ==
    [call |-> Call("none", Q("", ""), {}), exc |-> NoExc, ret |-> "none", seen |-> 0,
     keys |-> <<>>, form |-> NoForm, fault |-> NoFault, log |-> <<>>]

\* What a call leaves behind, the open context managers aside.
Effect(r, call) ==
    /\ conn' = r.conn
    /\ cursor' = r.cursor
    /\ value_cache' = r.vc
    /\ handles' = r.handles
    /\ transaction_writes' = r.tw
    /\ rollback_observers' = r.obs
    /\ realtime_log' = r.rt
    /\ enqueue_after_commit' = r.jobs
    /\ txn' = r.txn
    /\ committed' = r.committed
    /\ issued' = r.issued
    /\ last' = [call |-> call, exc |-> r.exc, ret |-> r.ret, seen |-> r.seen,
                keys |-> r.keys, form |-> r.form, fault |-> Fault(r), log |-> r.log]
    /\ UNCHANGED <<auto_commit_on_many_writes, before_commit>>

Done(r, call) == Effect(r, call) /\ UNCHANGED scope

\* The model's caps: the counters and the backend stay within the bounds.
Room(q) ==
    /\ q.kw \in WriteTypes => issued < MaxIssued /\ committed + NumWrites(txn) < MaxRows
    /\ q.kw = "savepoint" => NumMarkers(txn) < MaxSavepoints

Opts(run, auto_commit, ignore_ddl) ==
    (IF run THEN {"run"} ELSE {}) \cup (IF auto_commit THEN {"auto_commit"} ELSE {})
    \cup (IF ignore_ddl THEN {"ignore_ddl"} ELSE {})

Args(q, run, auto_commit, ignore_ddl) ==
    [q |-> q, run |-> run, auto_commit |-> auto_commit, ignore_ddl |-> ignore_ddl]

\* db.sql(query, run=, auto_commit=, ignore_ddl=), for the calls in args.
SqlCall(args, faults) ==
    \E a \in args :
        /\ Room(a.q)
        /\ \E o \in Oracles(sql(Session(NoFail), a.q, a.run, a.auto_commit, a.ignore_ddl).n,
                            a.ignore_ddl, faults) :
              Done(sql(Session(o), a.q, a.run, a.auto_commit, a.ignore_ddl),
                   Call("sql", a.q, Opts(a.run, a.auto_commit, a.ignore_ddl)))

BeginCall(faults) ==
    \E o \in Oracles(begin(Session(NoFail)).n, FALSE, faults) :
        Done(begin(Session(o)), Call("begin", Q("", ""), {}))

CommitCall(faults) ==
    \E o \in Oracles(commit(Session(NoFail)).n, FALSE, faults) :
        Done(commit(Session(o)), Call("commit", Q("", ""), {}))

SavepointCall(names, faults) ==
    \E name \in names :
        /\ Room(Q("savepoint", name))
        /\ \E o \in Oracles(savepoint(Session(NoFail), name).n, FALSE, faults) :
              Done(savepoint(Session(o), name), Call("savepoint", Q("", name), {}))

ReleaseSavepointCall(names, faults) ==
    \E name \in names :
        \E o \in Oracles(release_savepoint(Session(NoFail), name).n, FALSE, faults) :
            Done(release_savepoint(Session(o), name), Call("release_savepoint", Q("", name), {}))

RollbackCall(save_points, faults) ==
    \E save_point \in save_points :
        \E o \in Oracles(rollback(Session(NoFail), save_point).n, FALSE, faults) :
            Done(rollback(Session(o), save_point), Call("rollback", Q("", save_point), {}))

ConnectCall(faults) ==
    /\ handles < MaxHandles
    /\ \E o \in Oracles(1, FALSE, faults) :
        Done(connect(Session(o)), Call("connect", Q("", ""), {}))

Close == Done(close(Session(NoFail)), Call("close", Q("", ""), {}))

GetOpts(fieldname, as_dict, cache, ignore, run) ==
    {fieldname} \cup (IF cache THEN {"cache"} ELSE {}) \cup (IF ignore THEN {"ignore"} ELSE {})
    \cup (IF run THEN {"run"} ELSE {}) \cup (IF as_dict THEN {"as_dict"} ELSE {})

GetArgs(filters, fieldname, cache, ignore, run) ==
    [filters |-> filters, fieldname |-> fieldname, as_dict |-> FALSE, cache |-> cache,
     ignore |-> ignore, run |-> run]

AsDict(args) == [args EXCEPT !.as_dict = TRUE]

\* db.get_values(doctype, filters, fieldname, ignore=, cache=, run=), for the calls in args.
GetValuesCall(args, faults) ==
    \E a \in args :
        \E o \in Oracles(get_values(Session(NoFail), Doctype, a.filters, a.fieldname, a.as_dict,
                                     a.cache, a.ignore, a.run).n, a.ignore, faults) :
            Done(get_values(Session(o), Doctype, a.filters, a.fieldname, a.as_dict, a.cache,
                            a.ignore, a.run),
                 LookupCall("get_values", a.filters,
                            GetOpts(a.fieldname, a.as_dict, a.cache, a.ignore, a.run)))

\* db.get_value(doctype, filters, fieldname, ignore=, cache=, run=), for the calls in args.
GetValueCall(args, faults) ==
    \E a \in args :
        \E o \in Oracles(get_value(Session(NoFail), Doctype, a.filters, a.fieldname, a.as_dict,
                                    a.cache, a.ignore, a.run).n, a.ignore, faults) :
            Done(get_value(Session(o), Doctype, a.filters, a.fieldname, a.as_dict, a.cache,
                           a.ignore, a.run),
                 LookupCall("get_value", a.filters,
                            GetOpts(a.fieldname, a.as_dict, a.cache, a.ignore, a.run)))

CatchOpt(catch) == IF catch = AllExceptions THEN {"catch_all"} ELSE {"catch_some"}

\* Entering `with savepoint(catch):`; the name drawn is none the session has in use.
EnterSavepoint(faults) ==
    \E name \in ScopeNames, catch \in Catches :
        /\ Len(scope) < MaxScopes
        /\ NumMarkers(txn) < MaxScopes
        /\ \A i \in 1..Len(scope) : scope[i].name # name
        /\ LastMarker(txn, name) = 0
        /\ \E o \in Oracles(savepoint_enter(Session(NoFail), name, catch).n, FALSE, faults) :
              /\ Effect(savepoint_enter(Session(o), name, catch),
                        Call("savepoint_enter", Q("", name), CatchOpt(catch)))
              /\ scope' = IF last'.exc = NoExc
                          THEN Append(scope, [name |-> name, catch |-> catch])
                          ELSE scope

\* Leaving the innermost `with savepoint(catch):`, the body having raised body_exc.
ExitSavepoint(faults) ==
    /\ scope # <<>>
    /\ LET top == scope[Len(scope)]
       IN  \E body_exc \in BodyOutcomes :
             \E o \in Oracles(savepoint_exit(Session(NoFail), top.name, body_exc, top.catch).n,
                               FALSE, faults) :
                 /\ Effect(savepoint_exit(Session(o), top.name, body_exc, top.catch),
                           Call("savepoint_exit", Q(body_exc, top.name), CatchOpt(top.catch)))
                 /\ scope' = SubSeq(scope, 1, Len(scope) - 1)

\* Registrations made by the application between calls.
Forget == last' = NoCall

add_before_commit(hooks) ==
    \E h \in hooks :
        /\ Len(before_commit) < MaxHooks
        /\ before_commit' = Append(before_commit, h)
        /\ Forget
        /\ UNCHANGED <<cursor, value_cache, handles, scope>>
        /\ UNCHANGED <<conn, transaction_writes, auto_commit_on_many_writes,
                       rollback_observers, realtime_log, enqueue_after_commit,
                       txn, committed, issued>>

AddRollbackObserver(observers) ==
    \E ob \in observers :
        /\ Len(rollback_observers) < MaxObservers
        /\ rollback_observers' = Append(rollback_observers, ob)
        /\ Forget
        /\ UNCHANGED <<cursor, value_cache, handles, scope>>
        /\ UNCHANGED <<conn, transaction_writes, auto_commit_on_many_writes,
                       before_commit, realtime_log, enqueue_after_commit,
                       txn, committed, issued>>

PublishRealtime ==
    \E x \in RealtimeItems :
        /\ Len(realtime_log) < MaxQueue
        /\ realtime_log' = Append(realtime_log, x)
        /\ Forget
        /\ UNCHANGED <<cursor, value_cache, handles, scope>>
        /\ UNCHANGED <<conn, transaction_writes, auto_commit_on_many_writes,
                       before_commit, rollback_observers, enqueue_after_commit,
                       txn, committed, issued>>

EnqueueAfterCommit ==
    \E j \in Jobs :
        /\ Len(enqueue_after_commit) < MaxQueue
        /\ enqueue_after_commit' = Append(enqueue_after_commit, j)
        /\ Forget
        /\ UNCHANGED <<cursor, value_cache, handles, scope>>
        /\ UNCHANGED <<conn, transaction_writes, auto_commit_on_many_writes,
                       before_commit, rollback_observers, realtime_log,
                       txn, committed, issued>>

SetAutoCommitOnManyWrites ==
    \E b \in BOOLEAN :
        /\ b # auto_commit_on_many_writes
        /\ auto_commit_on_many_writes' = b
        /\ Forget
        /\ UNCHANGED <<cursor, value_cache, handles, scope>>
        /\ UNCHANGED <<conn, transaction_writes, before_commit, rollback_observers,
                       realtime_log, enqueue_after_commit, txn, committed, issued>>

Init ==
    /\ conn = FALSE
    /\ cursor = FALSE
    /\ value_cache = <<>>
    /\ handles = 0
    /\ scope = <<>>
    /\ transaction_writes = 0
    /\ auto_commit_on_many_writes = FALSE
    /\ before_commit = <<>>
    /\ rollback_observers = <<>>
    /\ realtime_log = <<>>
    /\ enqueue_after_commit = <<>>
    /\ txn = <<>>
    /\ committed = 0
    /\ issued = 0
    /\ last = NoCall

----------------------------------------------------------------------------
(* Spec: the write accounting under faults.  Every statement type through  *)
(* sql(), the transaction calls, savepoints, close and reconnect; any      *)
(* connect or statement may fail; the registries stay empty.               *)

SqlArgs ==
    {Args(q, TRUE, FALSE, FALSE) : q \in Statements}
    \cup {Args(Q(k, ""), TRUE, TRUE, FALSE) : k \in {"insert", "select", "create"}}
    \cup {Args(Q(k, ""), FALSE, FALSE, FALSE) : k \in {"insert", "create"}}

Sql == SqlCall(SqlArgs, TRUE)

Begin == BeginCall(TRUE)

Commit == CommitCall(TRUE)

Savepoint == SavepointCall(SavepointNames, TRUE)

ReleaseSavepoint == ReleaseSavepointCall(SavepointNames, TRUE)

Rollback == RollbackCall(SavepointNames \cup {""}, TRUE)

\* connect() on a session that holds no connection.
Connect == ~conn /\ ConnectCall(TRUE)

Next ==
    \/ Sql
    \/ Begin
    \/ Commit
    \/ Savepoint
    \/ ReleaseSavepoint
    \/ Rollback
    \/ Connect
    \/ Close
    \/ SetAutoCommitOnManyWrites

Spec == Init /\ [][Next]_vars

----------------------------------------------------------------------------
(* SpecNoFault: the same calls on a backend where no connect and no        *)
(* statement fails, except the savepoint statements the backend refuses    *)
(* because the savepoint does not exist.                                   *)

PlainSql == SqlCall(SqlArgs, FALSE)

PlainBegin == BeginCall(FALSE)

PlainCommit == CommitCall(FALSE)

PlainSavepoint == SavepointCall(SavepointNames, FALSE)

PlainReleaseSavepoint == ReleaseSavepointCall(SavepointNames, FALSE)

PlainRollback == RollbackCall(SavepointNames \cup {""}, FALSE)

PlainConnect == ~conn /\ ConnectCall(FALSE)

NextNoFault ==
    \/ PlainSql
    \/ PlainBegin
    \/ PlainCommit
    \/ PlainSavepoint
    \/ PlainReleaseSavepoint
    \/ PlainRollback
    \/ PlainConnect
    \/ Close
    \/ SetAutoCommitOnManyWrites

SpecNoFault == Init /\ [][NextNoFault]_vars

----------------------------------------------------------------------------
(* SpecHooks: the commit pipeline under faults.  Commit hooks, the         *)
(* post-commit queues and one rollback observer are registered between     *)
(* calls; writes, commit and close, no rollback and no savepoint; any      *)
(* hook, connect or statement may fail.                                    *)

SqlWrite == SqlCall({Args(Q("insert", ""), TRUE, ac, FALSE) : ac \in BOOLEAN}, TRUE)

RegisterHook == add_before_commit(Hooks)

RegisterOneObserver == rollback_observers = <<>> /\ AddRollbackObserver({"o1"})

NextHooks ==
    \/ SqlWrite
    \/ Commit
    \/ Close
    \/ RegisterHook
    \/ RegisterOneObserver
    \/ PublishRealtime
    \/ EnqueueAfterCommit

SpecHooks == Init /\ [][NextHooks]_vars

----------------------------------------------------------------------------
(* SpecObservers: rollback and its observers.  Observers and one commit    *)
(* hook are registered between calls; writes, DDL, savepoints, rollback to *)
(* a savepoint and of the whole transaction, close, no commit and no       *)
(* release of a savepoint; no fault                                        *)
(* but the backend's refusal of a savepoint that does not exist.           *)

SqlSome ==
    SqlCall({Args(Q(k, ""), TRUE, FALSE, FALSE) : k \in {"insert", "create"}}, FALSE)

RegisterObserver == AddRollbackObserver(Observers)

RegisterOneHook == before_commit = <<>> /\ add_before_commit({"h1"})

NextObservers ==
    \/ SqlSome
    \/ PlainSavepoint
    \/ PlainRollback
    \/ Close
    \/ RegisterObserver
    \/ RegisterOneHook

SpecObservers == Init /\ [][NextObservers]_vars

----------------------------------------------------------------------------
(* What a call's log holds. *)

\* The statements the call sent to the backend, executed or failed, in order.
Sent(log) ==
    LET IsSent(ev) == ev.e \in {"exec", "execfail"}
    IN  SelectSeq(log, IsSent)

HasExec(log, kw) == \E i \in 1..Len(log) : log[i].e = "exec" /\ log[i].kw = kw

\* The call is sql() executing (run=True) a statement of one of the types.
IsSqlOf(l, types) ==
    /\ l.call.op = "sql"
    /\ "run" \in l.call.opts
    /\ l.call.kw \in types

----------------------------------------------------------------------------
(* SpecScoped: the savepoint() context manager.  Scopes are entered and    *)
(* left, nested up to MaxScopes, around writes, reads and rollbacks of the *)
(* whole transaction; the statements of entry and exit may fail.           *)

ScopedEnter == EnterSavepoint(TRUE)

ScopedExit == ExitSavepoint(TRUE)

SqlInScope ==
    SqlCall({Args(Q(k, ""), TRUE, FALSE, FALSE) : k \in {"insert", "select"}}, FALSE)

PlainRollbackAll == RollbackCall({""}, FALSE)

NextScoped ==
    \/ ScopedEnter
    \/ ScopedExit
    \/ SqlInScope
    \/ PlainRollbackAll
    \/ Close

SpecScoped == Init /\ [][NextScoped]_vars

----------------------------------------------------------------------------
(* SpecCache: the lookup interface and its cache.  Lookups by every kind   *)
(* of filter and fieldname, cached or not, around writes, rollback of the  *)
(* transaction and close; the select of a lookup may fail.                 *)

ByName == [kind |-> "str", val |-> "x", names |-> <<>>]

\* Lookups by name with every fieldname, cached or not; the cached lookup by
\* name with ignore and with run=False; the cached lookup by every other filter.
LookupArgs ==
    {GetArgs(ByName, fieldname, cache, FALSE, TRUE) : fieldname \in Fieldnames, cache \in BOOLEAN}
    \cup {GetArgs(ByName, "name", TRUE, TRUE, TRUE), GetArgs(ByName, "name", TRUE, FALSE, FALSE)}
    \cup {GetArgs(f, "name", TRUE, FALSE, TRUE) : f \in Filters}

GetValues == GetValuesCall(LookupArgs, TRUE)

GetValue == GetValueCall({GetArgs(ByName, "name", cache, FALSE, TRUE) : cache \in BOOLEAN}, FALSE)

InsertRow == SqlCall({Args(Q("insert", ""), TRUE, FALSE, FALSE)}, FALSE)

NextCache ==
    \/ GetValues
    \/ GetValue
    \/ InsertRow
    \/ PlainRollbackAll
    \/ Close

SpecCache == Init /\ [][NextCache]_vars

----------------------------------------------------------------------------
(* SpecCacheLife: the life of a cache entry.  Cached lookups by name       *)
(* around writes, commit, savepoints, rollback of the transaction or to a  *)
(* savepoint, and close; nothing fails.                                    *)

CachedLookup ==
    GetValuesCall({GetArgs(ByName, fieldname, TRUE, FALSE, TRUE) : fieldname \in {"name", "*"}},
                  FALSE)

SavepointA == SavepointCall({"a"}, FALSE)

RollbackOrToA == RollbackCall({"", "a"}, FALSE)

NextCacheLife ==
    \/ CachedLookup
    \/ InsertRow
    \/ PlainCommit
    \/ SavepointA
    \/ RollbackOrToA
    \/ Close

SpecCacheLife == Init /\ [][NextCacheLife]_vars

----------------------------------------------------------------------------
(* SpecControl: transaction control under faults.  Writes, commit,         *)
(* rollback of the transaction or to a savepoint, savepoints and close;    *)
(* any connect or statement of a write, a commit or a rollback may fail.   *)

InsertOrFail == SqlCall({Args(Q("insert", ""), TRUE, ac, FALSE) : ac \in BOOLEAN}, TRUE)

RollbackOrFail == RollbackCall({"", "a"}, TRUE)

NextControl ==
    \/ InsertOrFail
    \/ Commit
    \/ RollbackOrFail
    \/ SavepointA
    \/ Close

SpecControl == Init /\ [][NextControl]_vars

----------------------------------------------------------------------------
(* SpecGuard: the transaction checks of sql() under faults.  Every         *)
(* statement type through sql(), with and without auto_commit, a           *)
(* savepoint and the rollback to it or of the transaction, close, and the  *)
(* setting of auto_commit_on_many_writes; any connect or statement may     *)
(* fail.                                                                   *)

GuardedArgs ==
    {Args(q, TRUE, FALSE, FALSE) : q \in Statements}
    \cup {Args(Q(k, ""), TRUE, TRUE, FALSE) : k \in {"insert", "create"}}

GuardedSql == SqlCall(GuardedArgs, TRUE)

NextGuard ==
    \/ GuardedSql
    \/ SavepointA
    \/ RollbackOrFail
    \/ Close
    \/ SetAutoCommitOnManyWrites

SpecGuard == Init /\ [][NextGuard]_vars

----------------------------------------------------------------------------
(* SpecNames: lookups by a list of names.  get_values with every list of   *)
(* up to MaxNames entries, executed or not, on a session that is closed    *)
(* between them or not; any connect or statement may fail.                 *)

RECURSIVE Lists(_)
Lists(n) ==
    IF n = 0 THEN {<<>>}
    ELSE Lists(n - 1) \cup {Append(l, k) : l \in {x \in Lists(n - 1) : Len(x) = n - 1}, k \in Keys}

GetValuesByNames ==
    GetValuesCall({GetArgs(ByList(names), "name", FALSE, FALSE, run) :
                       names \in Lists(MaxNames), run \in BOOLEAN}, TRUE)

NextNames ==
    \/ GetValuesByNames
    \/ Close

SpecNames == Init /\ [][NextNames]_vars

----------------------------------------------------------------------------
(* SpecShape: the single-row lookup.  get_value by the name of a document  *)
(* that exists or not, by a mapping and by a list of names, for one        *)
(* column, several and all, as_dict or not, cached or not, with ignore and *)
(* unexecuted, on a session that is closed between them or not; any        *)
(* connect or statement may fail.                                          *)

ByAbsentName == [kind |-> "str", val |-> Absent, names |-> <<>>]

ByMapping == ByClause("=", <<"x">>)

ShapeArgs ==
    LET plain == {GetArgs(f, fieldname, cache, FALSE, TRUE) :
                      f \in {ByName, ByAbsentName, ByMapping, ByList(<<"a">>), ByList(<<>>)},
                      fieldname \in Fieldnames, cache \in BOOLEAN}
                 \cup {GetArgs(ByName, "name", cache, TRUE, TRUE) : cache \in BOOLEAN}
                 \cup {GetArgs(ByName, "name", TRUE, FALSE, FALSE)}
        hashed == {a \in plain : a.cache /\ a.filters.kind = "str" => Hashable(a.fieldname)}
    IN  hashed \cup {AsDict(a) : a \in hashed}

GetValueShaped == GetValueCall(ShapeArgs, TRUE)

NextShape ==
    \/ GetValueShaped
    \/ Close

SpecShape == Init /\ [][NextShape]_vars

----------------------------------------------------------------------------
(* SpecIgnore: errors of the backend of every kind, on either backend, in  *)
(* statements run with and without ignore_ddl, in lookups by name and by a *)
(* list of names with and without ignore, and in exists.                   *)

AnyFault(steps) ==
    {NoFail} \cup [failAt : 1..steps, failKind : FailKinds, db_type : DbTypes,
                   implicit : {FALSE}]

IgnoreArgs ==
    {Args(Q(kw, ""), TRUE, FALSE, ignore_ddl) :
         kw \in {"select", "insert", "alter"}, ignore_ddl \in BOOLEAN}

SqlIgnoring ==
    \E a \in IgnoreArgs :
        /\ Room(a.q)
        /\ \E o \in AnyFault(sql(Session(NoFail), a.q, a.run, a.auto_commit, a.ignore_ddl).n) :
              Done(sql(Session(o), a.q, a.run, a.auto_commit, a.ignore_ddl),
                   Call("sql", a.q, Opts(a.run, a.auto_commit, a.ignore_ddl)))

IgnoreLookups ==
    {GetArgs(f, "name", FALSE, ignore, TRUE) :
         f \in {ByName, ByList(<<"a">>)}, ignore \in BOOLEAN}

GetValuesIgnoring ==
    \E a \in IgnoreLookups :
        \E o \in AnyFault(get_values(Session(NoFail), Doctype, a.filters, a.fieldname,
                                      a.as_dict, a.cache, a.ignore, a.run).n) :
            Done(get_values(Session(o), Doctype, a.filters, a.fieldname, a.as_dict, a.cache,
                            a.ignore, a.run),
                 LookupCall("get_values", a.filters,
                            GetOpts(a.fieldname, a.as_dict, a.cache, a.ignore, a.run)))

GetValueIgnoring ==
    \E a \in IgnoreLookups :
        \E o \in AnyFault(get_value(Session(NoFail), Doctype, a.filters, a.fieldname,
                                     a.as_dict, a.cache, a.ignore, a.run).n) :
            Done(get_value(Session(o), Doctype, a.filters, a.fieldname, a.as_dict, a.cache,
                           a.ignore, a.run),
                 LookupCall("get_value", a.filters,
                            GetOpts(a.fieldname, a.as_dict, a.cache, a.ignore, a.run)))

BySingle == [kind |-> "str", val |-> Doctype, names |-> <<>>]

Exists ==
    \E dn \in {ByName, BySingle, ByMapping}, cache \in BOOLEAN :
        \E o \in AnyFault(exists(Session(NoFail), Doctype, dn, cache).n) :
            Done(exists(Session(o), Doctype, dn, cache),
                 LookupCall("exists", dn, IF cache THEN {"cache"} ELSE {}))

NextIgnore ==
    \/ SqlIgnoring
    \/ GetValuesIgnoring
    \/ GetValueIgnoring
    \/ Exists
    \/ Close

SpecIgnore == Init /\ [][NextIgnore]_vars

----------------------------------------------------------------------------
(* SpecFilters: lookups by a mapping whose entry is an equality, an in or  *)
(* a not in clause on a collection of up to MaxNames entries, executed or  *)
(* not, between inserts and closes; any connect or statement may fail.     *)

\* The collections of names, None and the empty string aside.
Operands == {l \in Lists(MaxNames) : Truthy(l) = l}

Clauses ==
    {ByMapping} \cup {ByClause(operator, operand) :
                          operator \in {"in", "not in"}, operand \in Operands}

GetValuesByClause ==
    GetValuesCall({GetArgs(f, "name", FALSE, FALSE, run) : f \in Clauses, run \in BOOLEAN},
                  TRUE)

NextFilters ==
    \/ GetValuesByClause
    \/ InsertRow
    \/ Close

SpecFilters == Init /\ [][NextFilters]_vars

----------------------------------------------------------------------------
(* SpecDdl: commit(), rollback() and sql_ddl() with writes pending or not, *)
(* after savepoints and closes; any connect or statement may fail.         *)

DdlStatements == {Q(kw, "") : kw \in {"create", "alter", "truncate"}}

SqlDdl ==
    \E q \in DdlStatements :
        \E o \in Oracles(sql_ddl(Session(NoFail), q).n, FALSE, TRUE) :
            Done(sql_ddl(Session(o), q), Call("sql_ddl", q, {}))

CommitOrFail == CommitCall(TRUE)

NextDdl ==
    \/ InsertOrFail
    \/ SqlDdl
    \/ CommitOrFail
    \/ RollbackOrFail
    \/ SavepointA
    \/ Close

SpecDdl == Init /\ [][NextDdl]_vars

----------------------------------------------------------------------------
(* SpecHit: the options of a cached lookup.  get_values by the name of a   *)
(* document, for one column and all, cached with every combination of     *)
(* as_dict, ignore and run, and uncached, between inserts and closes; any  *)
(* connect or statement of a lookup may fail.                              *)

HitArgs ==
    LET plain == {GetArgs(ByName, fieldname, TRUE, ignore, run) :
                      fieldname \in {"name", "*"}, ignore \in BOOLEAN, run \in BOOLEAN}
                 \cup {GetArgs(ByName, "name", FALSE, FALSE, TRUE)}
    IN  plain \cup {AsDict(a) : a \in plain}

GetValuesWithOptions == GetValuesCall(HitArgs, TRUE)

NextHit ==
    \/ GetValuesWithOptions
    \/ InsertRow
    \/ Close

SpecHit == Init /\ [][NextHit]_vars

----------------------------------------------------------------------------
(* SpecConnection: the connection's life.  connect() is called on a closed *)
(* and on a connected session alike and may fail; writes, commit, close    *)
(* and the registration of a rollback observer around it.                  *)

ConnectAny == ConnectCall(TRUE)

NextConnection ==
    \/ ConnectAny
    \/ Close
    \/ InsertRow
    \/ PlainCommit
    \/ RegisterOneObserver

SpecConnection == Init /\ [][NextConnection]_vars

----------------------------------------------------------------------------
(* Claims, checked under SpecGuard and SpecNoFault. *)

\* C1: a statement of type start, alter, drop, create, begin or truncate that
\* sql() executes while the write counter is nonzero raises ImplicitCommitError
\* and is never sent to the backend (unless connecting the session fails
\* first); while the counter is zero the guard does not reject it.
C1_ImplicitCommitGuard ==
    [][IsSqlOf(last', ImplicitCommitTypes) =>
         IF transaction_writes # 0
         THEN /\ last'.exc \in {"ImplicitCommitError", "ConnectionError"}
              /\ Sent(last'.log) = <<>>
         ELSE last'.exc # "ImplicitCommitError"]_vars

\* C1 witness: sql() has rejected a truncate statement.
C1_Witness ==
    /\ IsSqlOf(last, {"truncate"})
    /\ last.exc = "ImplicitCommitError"
    /\ transaction_writes # 0

\* C3 as stated: when TooManyWritesError reaches the caller the transaction has
\* been rolled back: no write is pending and the write counter is zero.
C3_RolledBackBeforeRaise ==
    last.exc = "TooManyWritesError" =>
        /\ transaction_writes = 0
        /\ NumWrites(txn) = 0

\* C4 as stated: sql() of a write takes the ceiling action (automatic commit
\* when auto_commit_on_many_writes is set, TooManyWritesError otherwise)
\* exactly when that write makes the number of writes since the last commit or
\* rollback of the transaction exceed MAX_WRITES_PER_TRANSACTION.
C4_CeilingOnNPlusOne ==
    [][(IsSqlOf(last', WriteTypes) /\ last'.exc # "ConnectionError") =>
         LET over == issued + 1 > MAX_WRITES_PER_TRANSACTION
         IN  /\ Has(last'.log, "many_writes_commit") <=> (over /\ auto_commit_on_many_writes)
             /\ last'.exc = "TooManyWritesError" <=> (over /\ ~auto_commit_on_many_writes)]_vars

\* C5 as stated: in every reachable state the write counter equals the number
\* of writes issued through sql() since the last transaction boundary.
C5_CounterCountsWrites == transaction_writes = issued

----------------------------------------------------------------------------
(* Claims, checked under SpecObservers. *)

\* What C2 says a rejected statement leaves alone.
RejectedFrame ==
    /\ transaction_writes' = transaction_writes
    /\ rollback_observers' = rollback_observers
    /\ before_commit' = before_commit
    /\ txn' = txn
    /\ committed' = committed
    /\ Sent(last'.log) = <<>>

\* C2 as stated: a call rejected with ImplicitCommitError leaves the write
\* counter, the rollback observers, the commit hooks and the pending writes as
\* they were and sends nothing to the backend.
C2_RejectionChangesNothing ==
    [][last'.exc = "ImplicitCommitError" => RejectedFrame]_vars

\* C2 amended: the same, for a session that is connected when the call is made.
C2_RejectionChangesNothingWhenConnected ==
    [][(conn /\ last'.exc = "ImplicitCommitError") => RejectedFrame]_vars

\* C2 witness: a DDL statement was rejected with a write pending and an
\* observer and a commit hook registered.
C2_Witness ==
    /\ IsSqlOf(last, {"create"})
    /\ last.exc = "ImplicitCommitError"
    /\ last.log = <<>>
    /\ NumWrites(txn) > 0
    /\ rollback_observers # <<>>
    /\ before_commit # <<>>

\* The observers a call notified, in order.
Notified(log) ==
    LET IsNote(ev) == ev.e = "on_rollback"
        notes == SelectSeq(log, IsNote)
    IN  [i \in 1..Len(notes) |-> notes[i].arg]

FirstAt(xs, x) == CHOOSE i \in 1..Len(xs) : xs[i] = x /\ \A j \in 1..(i - 1) : xs[j] # x

\* notes holds each observer of obs that exposes on_rollback once, in the order
\* of first registration, and nothing else.
NotifiedAsRegistered(notes, obs) ==
    /\ \A i \in 1..Len(notes) :
          /\ HasOnRollback(notes[i])
          /\ \E j \in 1..Len(obs) : obs[j] = notes[i]
    /\ \A j \in 1..Len(obs) :
          HasOnRollback(obs[j]) => Cardinality({i \in 1..Len(notes) : notes[i] = obs[j]}) = 1
    /\ \A i, k \in 1..Len(notes) :
          i < k => FirstAt(obs, notes[i]) < FirstAt(obs, notes[k])

IsFullRollback(l) == l.call.op = "rollback" /\ l.call.arg = "" /\ l.exc = NoExc

FullRollbackDone ==
    /\ Sent(last'.log) = <<Ev("exec", "rollback", ""), Ev("exec", "start", "")>>
    /\ NotifiedAsRegistered(Notified(last'.log), rollback_observers)
    /\ rollback_observers' = <<>>
    /\ transaction_writes' = 0
    /\ txn' = <<>>
    /\ committed' = committed

\* C9 as stated: rollback() without a savepoint rolls the transaction back,
\* begins a new one, notifies each distinct registered observer that exposes
\* on_rollback once, in first-registration order, and leaves the observer set
\* empty and the write counter zero.
C9_FullRollbackNotifiesAll ==
    [][IsFullRollback(last') => FullRollbackDone]_vars

\* C9 amended: the same, for a session that is connected when rollback() is
\* called; the notifications follow ROLLBACK and START TRANSACTION.
C9_FullRollbackNotifiesAllWhenConnected ==
    [][(conn /\ IsFullRollback(last')) =>
         /\ FullRollbackDone
         /\ \A i \in 1..Len(last'.log) :
               last'.log[i].e = "on_rollback" =>
                   \E j \in 1..(i - 1) : last'.log[j] = Ev("exec", "start", "")]_vars

\* C9 witness: rollback() on a connected session has notified two observers.
C9_Witness ==
    /\ IsFullRollback(last)
    /\ Len(Notified(last.log)) = 2
    /\ ~Has(last.log, "connect")
    /\ rollback_observers = <<>>

----------------------------------------------------------------------------
(* Claims, checked under SpecHooks. *)

IsCommit(l) == l.call.op = "commit"

\* C6 as stated: after commit() has drained the hook list, the drain failed or
\* not, the list is empty.
C6_HooksClearedByCommit ==
    (IsCommit(last) /\ last.exc \in {NoExc, "HookError"}) => before_commit = <<>>

\* The hooks a call ran, in order.
HooksRun(log) ==
    LET IsHook(ev) == ev.e = "hook"
        hs == SelectSeq(log, IsHook)
    IN  [i \in 1..Len(hs) |-> hs[i].arg]

Items(log, e) ==
    LET IsIt(ev) == ev.e = e
        xs == SelectSeq(log, IsIt)
    IN  [i \in 1..Len(xs) |-> xs[i].arg]

\* The place of an event in the order C7 states; 0 for an event it does not name.
PhaseStated(ev) ==
    CASE ev.e = "hook" -> 1
      [] ev.e = "exec" /\ ev.kw = "commit" -> 2
      [] ev.e = "exec" /\ ev.kw = "start" -> 3
      [] ev.e \in {"reset_writes", "reset_observers"} -> 4
      [] ev.e \in {"emit", "enqueue"} -> 5
      [] OTHER -> 0

\* The order the code follows: the write counter is reset before COMMIT is sent.
PhaseInCode(ev) ==
    CASE ev.e = "hook" -> 1
      [] ev.e = "reset_writes" -> 2
      [] ev.e = "exec" /\ ev.kw = "commit" -> 3
      [] ev.e = "exec" /\ ev.kw = "start" -> 4
      [] ev.e = "reset_observers" -> 5
      [] ev.e \in {"emit", "enqueue", "flush_link_count"} -> 6
      [] OTHER -> 0

InOrder(log, Phase(_)) ==
    \A i, j \in 1..Len(log) :
        (i < j /\ Phase(log[i]) > 0 /\ Phase(log[j]) > 0) => Phase(log[i]) <= Phase(log[j])

CommitSteps(Phase(_)) ==
    /\ InOrder(last'.log, Phase)
    /\ HooksRun(last'.log) = before_commit
    /\ HasExec(last'.log, "commit")
    /\ HasExec(last'.log, "start")
    /\ Has(last'.log, "reset_writes")
    /\ Items(last'.log, "emit") = realtime_log
    /\ Items(last'.log, "enqueue") = enqueue_after_commit
    /\ transaction_writes' = 0
    /\ rollback_observers' = <<>>
    /\ realtime_log' = <<>>
    /\ enqueue_after_commit' = <<>>

\* C7 as stated: commit() runs the hooks in registration order, then COMMIT,
\* then START TRANSACTION, then resets the write counter and the observer set,
\* then fires each queued post-commit item once and empties the queues.
C7_CommitOrder ==
    [][(IsCommit(last') /\ last'.exc = NoExc) => CommitSteps(PhaseStated)]_vars

\* C7, the order of the code: the same steps with the write counter reset
\* before COMMIT is sent.
C7_CommitOrderInCode ==
    [][(IsCommit(last') /\ last'.exc = NoExc) => CommitSteps(PhaseInCode)]_vars

\* C8: a failing hook is the last thing any call does; when commit() fails in
\* a hook, no later hook has run, nothing was sent to the backend, the write
\* counter, the observer set, the queues and the backend are as they were and
\* no post-commit effect has fired.
C8_FailingHookAborts ==
    [][/\ \A i \in 1..Len(last'.log) :
             last'.log[i].e = "hookfail" => i = Len(last'.log) /\ last'.exc = "HookError"
       /\ (IsCommit(last') /\ last'.exc = "HookError") =>
             /\ \A i \in 1..Len(last'.log) : last'.log[i].e \in {"hook", "hookfail"}
             /\ transaction_writes' = transaction_writes
             /\ rollback_observers' = rollback_observers
             /\ realtime_log' = realtime_log
             /\ enqueue_after_commit' = enqueue_after_commit
             /\ txn' = txn
             /\ committed' = committed
             /\ conn' = conn]_vars

\* C8 witness: the first of two hooks failed in commit() with a write pending,
\* an observer registered and both queues filled.
C8_Witness ==
    /\ IsCommit(last)
    /\ last.exc = "HookError"
    /\ Len(last.log) = 1
    /\ Len(before_commit) = 2
    /\ transaction_writes > 0
    /\ NumWrites(txn) > 0
    /\ rollback_observers # <<>>
    /\ realtime_log # <<>>
    /\ enqueue_after_commit # <<>>

----------------------------------------------------------------------------
(* Claims, checked under SpecScoped and SpecNoFault. *)

\* Every statement a call passed to the backend, executed or refused.
Passed(log) ==
    LET IsPassed(ev) == ev.e \in {"exec", "execfail"}
    IN  SelectSeq(log, IsPassed)

Stmt(log, i) == [kw |-> Passed(log)[i].kw, arg |-> Passed(log)[i].arg]

\* The statements a call passed to the backend are at most one, statement q.
PassedOnly(log, q) ==
    /\ Len(Passed(log)) <= 1
    /\ \A i \in 1..Len(Passed(log)) : Stmt(log, i) = q

\* C11: entering the context manager creates a savepoint; leaving it after a
\* failure of the caught type passes to the backend no statement but the
\* rollback to that savepoint, which leaves the outer transaction open with
\* what preceded the savepoint; leaving it without failure passes no statement
\* but the release of that savepoint, which keeps every write; never both,
\* never another name.
C11_ScopedSavepoint ==
    [][/\ (last'.call.op = "savepoint_enter" /\ last'.exc = NoExc) =>
             /\ Sent(last'.log) = <<Ev("exec", "savepoint", last'.call.arg)>>
             /\ txn' = Append(IF conn THEN txn ELSE <<>>, last'.call.arg)
             /\ committed' = committed
       /\ (last'.call.op = "savepoint_exit" /\ last'.call.kw \in scope[Len(scope)].catch) =>
             /\ PassedOnly(last'.log, Q("rollback", scope[Len(scope)].name))
             /\ last'.exc = NoExc =>
                   /\ Sent(last'.log) = <<Ev("exec", "rollback", scope[Len(scope)].name)>>
                   /\ txn' = BackendRollbackTo(txn, scope[Len(scope)].name)
                   /\ txn' # <<>>
                   /\ committed' = committed
       /\ (last'.call.op = "savepoint_exit" /\ last'.call.kw = NoExc) =>
             /\ PassedOnly(last'.log, Q("release", scope[Len(scope)].name))
             /\ last'.exc = NoExc =>
                   /\ Sent(last'.log) = <<Ev("exec", "release", scope[Len(scope)].name)>>
                   /\ txn' = BackendRelease(txn, scope[Len(scope)].name)
                   /\ NumWrites(txn') = NumWrites(txn)
                   /\ committed' = committed]_vars

\* C11 witness: an inner scope was left after a caught failure, the write made
\* before it still pending and the outer scope still open.
C11_Witness ==
    /\ last.call.op = "savepoint_exit"
    /\ last.call.kw = "DuplicateError"
    /\ last.exc = NoExc
    /\ Len(scope) = 1
    /\ NumWrites(txn) = 1
    /\ issued = 2

WritesBefore(t, name) == NumWrites(SubSeq(t, 1, LastMarker(t, name)))

IsRollbackTo(l) == l.call.op = "rollback" /\ l.call.arg # "" /\ l.exc = NoExc

\* C12: rollback(save_point=name) leaves pending exactly the writes made before
\* savepoint(name), and the read that follows it sees the committed rows and
\* those writes, none of the writes made after the savepoint.
C12_SavepointVisibility ==
    [][/\ IsRollbackTo(last') =>
             /\ NumWrites(txn') = WritesBefore(txn, last'.call.arg)
             /\ committed' = committed
       /\ (IsRollbackTo(last) /\ IsSqlOf(last', {"select"}) /\ last'.exc = NoExc) =>
             /\ LastMarker(txn, last.call.arg) = Len(txn)
             /\ last'.seen = committed + WritesBefore(txn, last.call.arg)]_vars

\* C12 witness: a read made after a rollback to savepoint a that undid one of
\* two writes saw the other one.
C12_Witness ==
    /\ IsSqlOf(last, {"select"})
    /\ last.exc = NoExc
    /\ last.seen = 1
    /\ txn = <<"w", "a">>
    /\ issued = 2
    /\ committed = 0

----------------------------------------------------------------------------
(* Claims, checked under Spec and SpecHooks. *)

IsCommitOrFullRollback(l) ==
    l.call.op = "commit" \/ (l.call.op = "rollback" /\ l.call.arg = "")

\* C13: when commit() or rollback() of the whole transaction returns normally,
\* the last statement the session sent to the backend is START TRANSACTION and
\* the session holds a connection with no write pending.
C13_NewTransactionBegun ==
    (IsCommitOrFullRollback(last) /\ last.exc = NoExc) =>
        /\ Sent(last.log) # <<>>
        /\ Sent(last.log)[Len(Sent(last.log))] = Ev("exec", "start", "")
        /\ conn
        /\ txn = <<>>

\* C13 witness: commit() returned after committing a write: COMMIT, then START TRANSACTION.
C13_Witness ==
    /\ last.call.op = "commit"
    /\ last.exc = NoExc
    /\ committed > 0
    /\ Sent(last.log) = <<Ev("exec", "commit", ""), Ev("exec", "start", "")>>

\* C14: commit() with no write pending changes no row, leaves the write counter
\* zero and begins a transaction; a commit() right after a commit() that
\* returned changes nothing in the session.
C14_CommitIdempotent ==
    [][(IsCommit(last') /\ last'.exc = NoExc) =>
         /\ NumWrites(txn) = 0 =>
               /\ committed' = committed
               /\ txn' = <<>>
               /\ transaction_writes' = 0
               /\ HasExec(last'.log, "start")
         /\ (IsCommit(last) /\ last.exc = NoExc) =>
               UNCHANGED <<conn, cursor, value_cache, transaction_writes,
                           auto_commit_on_many_writes, before_commit, rollback_observers,
                           realtime_log, enqueue_after_commit, txn, committed, handles,
                           scope>>]_vars

\* C14 witness: commit() ran two hooks and returned on a connected session
\* that has never committed a row.
C14_Witness ==
    /\ IsCommit(last)
    /\ last.exc = NoExc
    /\ committed = 0
    /\ Len(HooksRun(last.log)) = 2
    /\ ~Has(last.log, "connect")

----------------------------------------------------------------------------
(* Claims, checked under SpecCache and SpecCacheLife. *)

IsLookup(l) == l.call.op \in {"get_values", "get_value"}

FieldOf(call) == CHOOSE f \in Fieldnames : f \in call.opts

FiltersOf(call) == [kind |-> call.kw, val |-> call.arg, names |-> call.names]

KeyOf(call) == CacheKey(Doctype, FiltersOf(call), FieldOf(call))

\* The call is one that get_values keys: cache=True and a string filter.
Keyed(call) == "cache" \in call.opts /\ call.kw = "str"

\* The call finds its key stored.
Hit(call) == Keyed(call) /\ Hashable(FieldOf(call)) /\ KeyOf(call) \in DOMAIN value_cache

\* The last call was a write that the backend executed.
Wrote(l) == IsSqlOf(l, WriteTypes) /\ l.exc = NoExc /\ HasExec(l.log, l.call.kw)

\* A lookup of the row that returned what it read or had stored.
ReadRow(l) ==
    /\ IsLookup(l)
    /\ "run" \in l.call.opts
    /\ l.exc = NoExc
    /\ ~Has(l.log, "execfail")
    /\ ~(l.call.kw = "list" /\ Truthy(l.call.names) = <<>>)
    /\ l.call.arg # Absent

ObservesWrite ==
    /\ last'.ret \in {"rows", "row", "scalar"}
    /\ last'.seen = committed + NumWrites(txn)

\* C15 as stated: a lookup of the row that directly follows a write of it, in
\* the same transaction, returns the written value, with cache=True or without.
C15_ReadAfterWrite ==
    [][(Wrote(last) /\ ReadRow(last')) => ObservesWrite]_vars

\* C15 amended: the same, for a lookup that is not served from the cache.
C15_ReadAfterWriteUncached ==
    [][(Wrote(last) /\ ReadRow(last') /\ ~Hit(last'.call)) => ObservesWrite]_vars

\* C15 witness: a cached lookup by name that missed has read the row after two
\* writes of the open transaction and returned the second.
C15_Witness ==
    /\ last.call.op = "get_values"
    /\ Keyed(last.call)
    /\ last.exc = NoExc
    /\ HasExec(last.log, "select")
    /\ last.seen = 2
    /\ NumWrites(txn) = 2
    /\ committed = 0

CacheOnlyGains(vc, vc2, key) ==
    /\ DOMAIN vc2 = DOMAIN vc \cup {key}
    /\ \A k \in DOMAIN vc : vc2[k] = vc[k]

\* What C16 says of a keyed get_values call: served from the cache without
\* touching the session when its key is stored, executed and stored otherwise.
HitOrMiss ==
    IF KeyOf(last'.call) \in DOMAIN value_cache
    THEN /\ last'.exc = NoExc
         /\ last'.log = <<>>
         /\ last'.ret = value_cache[KeyOf(last'.call)].ret
         /\ last'.seen = value_cache[KeyOf(last'.call)].seen
         /\ UNCHANGED <<conn, cursor, value_cache, transaction_writes, txn, committed, handles>>
    ELSE /\ last'.exc # "TypeError"
         /\ "run" \in last'.call.opts => Passed(last'.log) # <<>> \/ last'.exc = "ConnectionError"
         /\ last'.exc = NoExc =>
               /\ CacheOnlyGains(value_cache, value_cache', KeyOf(last'.call))
               /\ value_cache'[KeyOf(last'.call)] =
                      [ret |-> last'.ret, seen |-> last'.seen, form |-> last'.form]
         /\ last'.exc # NoExc => value_cache' = value_cache

\* C16 as stated: every get_values call with cache=True and a string filter
\* returns the stored result and touches nothing when its key is stored, and
\* executes and stores its result under the key when it is not.
C16_CacheHitOrMiss ==
    [][(last'.call.op = "get_values" /\ Keyed(last'.call)) => HitOrMiss]_vars

\* C16, for the fieldnames that can be part of a key (a column name or "*").
C16_CacheHitOrMissHashable ==
    [][(last'.call.op = "get_values" /\ Keyed(last'.call) /\ Hashable(FieldOf(last'.call)))
         => HitOrMiss]_vars

\* C17: every key of the cache holds a string filter, and a lookup whose filter
\* is no string or whose cache flag is false leaves the cache as it is and
\* returns what it reads itself.
C17_OnlyStringFiltersCached ==
    [][/\ \A k \in DOMAIN value_cache' : k[2].kind = "str"
       /\ (IsLookup(last') /\ ~Keyed(last'.call)) =>
             /\ value_cache' = value_cache
             /\ ReadRow(last') =>
                   /\ HasExec(last'.log, "select")
                   /\ last'.seen = committed + NumWrites(txn)]_vars

\* C17 witness: with an entry stored for the name and a write made since, a
\* cached lookup by a mapping has read the row itself.
C17_Witness ==
    /\ last.call.op = "get_values"
    /\ last.call.kw = "dict"
    /\ "cache" \in last.call.opts
    /\ last.exc = NoExc
    /\ last.seen = 1
    /\ DOMAIN value_cache # {}
    /\ \A k \in DOMAIN value_cache : value_cache[k].seen = 0 /\ value_cache[k].ret = "rows"

\* C18: no call removes a cache entry or changes its value.
C18_CacheEntriesLive ==
    [][\A k \in DOMAIN value_cache :
          k \in DOMAIN value_cache' /\ value_cache'[k] = value_cache[k]]_vars

\* C18 witness: two entries stored at different times have outlived a commit
\* and the close of the connection.
C18_Witness ==
    /\ last.call.op = "close"
    /\ committed > 0
    /\ Cardinality(DOMAIN value_cache) = 2
    /\ \E k1, k2 \in DOMAIN value_cache : value_cache[k1].seen < value_cache[k2].seen

----------------------------------------------------------------------------
(* Claims about the connection, checked under SpecConnection. *)

IsConnect == last'.call.op = "connect"

IsClose == last'.call.op = "close"

\* C19: connect() on a connected session opens no connection and creates no
\* cursor, raises nothing and changes nothing; the session never holds more
\* than one connection that close() was not called on.
C19_ConnectIdempotent ==
    [][/\ handles' <= 1
       /\ IsConnect /\ conn =>
             /\ last'.log = <<>>
             /\ last'.exc = NoExc
             /\ UNCHANGED <<conn, cursor, handles, rollback_observers, txn,
                            transaction_writes, committed>>]_vars

\* C19, for the session that is not connected: connect() opens one
\* connection with its cursor, or fails with ConnectionError and leaves the
\* session closed.
C19_ConnectWhenClosed ==
    [][IsConnect /\ ~conn =>
          \/ /\ last'.exc = NoExc
             /\ last'.log = <<Ev("connect", "", "")>>
             /\ conn' /\ cursor' /\ handles' = handles + 1
          \/ /\ last'.exc = "ConnectionError"
             /\ UNCHANGED <<conn, cursor, handles>>]_vars

\* C20: close() raises nothing and leaves the session without connection
\* and cursor; on a connected session it closes the handle once, on a closed
\* one it does nothing; after it no connection the session opened is open.
C20_CloseReleasesEveryHandle ==
    [][IsClose =>
          /\ last'.exc = NoExc
          /\ ~conn' /\ ~cursor'
          /\ handles' = 0
          /\ conn => last'.log = <<Ev("close", "", "")>>
          /\ ~conn => last'.log = <<>>]_vars

\* C20, for the handle the session holds: close() raises nothing, closes
\* that handle once and drops handle and cursor; on a closed session it
\* sends nothing and changes nothing.
C20_CloseSafe ==
    [][IsClose =>
          /\ last'.exc = NoExc
          /\ ~conn' /\ ~cursor'
          /\ conn => last'.log = <<Ev("close", "", "")>> /\ handles' = handles - 1
          /\ ~conn => /\ last'.log = <<>>
                      /\ UNCHANGED <<conn, cursor, value_cache, transaction_writes,
                                     auto_commit_on_many_writes, before_commit,
                                     rollback_observers, realtime_log, enqueue_after_commit,
                                     txn, committed, handles, scope, issued>>]_vars

----------------------------------------------------------------------------
(* Claims about the transaction checks, checked under SpecGuard. *)

IsRunSql(l) == l.call.op = "sql" /\ "run" \in l.call.opts

\* C21: a sql() call that executes, made on a session that holds no
\* connection, connects first, before the transaction checks and before a
\* statement is passed to the backend, and stops there when the connect
\* fails; on a connected session it does not connect; no statement is ever
\* passed to a cursor that is not there.
C21_ConnectsBeforeExecuting ==
    [][IsRunSql(last') =>
          /\ last'.exc # "AttributeError"
          /\ conn => ~Has(last'.log, "connect") /\ ~Has(last'.log, "connectfail")
          /\ ~conn =>
                /\ last'.log # <<>>
                /\ last'.log[1].e \in {"connect", "connectfail"}
                /\ last'.log[1].e = "connectfail" =>
                      /\ last'.log = <<Ev("connectfail", "", "")>>
                      /\ last'.exc = "ConnectionError"
                      /\ transaction_writes' = transaction_writes
          /\ Passed(last'.log) # <<>> => conn']_vars

\* C21 witness: after a close() that left the write counter standing, sql()
\* of a create statement has connected the session and was then rejected by
\* the implicit-commit guard.
C21_Witness ==
    /\ IsRunSql(last)
    /\ last.call.kw = "create"
    /\ last.exc = "ImplicitCommitError"
    /\ last.log = <<Ev("connect", "", "")>>

----------------------------------------------------------------------------
(* Claims about the lookups, checked under SpecNames. *)

\* The entries of a list of names that are neither None nor empty, in order.
RECURSIVE WithoutEmpty(_)
WithoutEmpty(names) ==
    IF names = <<>> THEN <<>>
    ELSE IF Head(names) \in {NoneKey, ""} THEN WithoutEmpty(Tail(names))
    ELSE <<Head(names)>> \o WithoutEmpty(Tail(names))

IsLookupByList == last'.call.op = "get_values" /\ last'.call.kw = "list"

C22_WitnessEmpty ==
    /\ last.call.op = "get_values"
    /\ last.call.names = <<NoneKey, "">>
    /\ last.ret = "empty"
    /\ handles = 0

----------------------------------------------------------------------------
(* Claims about the single-row lookup, checked under SpecShape. *)

IsGetValue(l) == l.call.op = "get_value" /\ "run" \in l.call.opts

\* The lookup is for a row that exists.
Matches(call) ==
    /\ call.arg # Absent
    /\ call.kw = "list" => Truthy(call.names) # <<>>

\* What C23 says get_value returns, when neither the connect nor the
\* statement failed with an error that reaches the caller.
ShapedAsStated ==
    /\ last'.exc = NoExc
    /\ IF ~Matches(last'.call) \/ Has(last'.log, "execfail")
       THEN last'.ret = "none"
       ELSE IF Width(FieldOf(last'.call)) = 1 /\ "as_dict" \notin last'.call.opts
       THEN last'.ret = "scalar"
       ELSE last'.ret = "row"

BackendErrors == {"ConnectionError", "DatabaseError"}

\* C23 as stated: get_value returns None and raises nothing when no row
\* matches, the bare value when the row has one column and as_dict is not
\* requested, and the row when it has several columns or as_dict is requested.
C23_SingleRowShape ==
    [][(IsGetValue(last') /\ last'.exc \notin BackendErrors) => ShapedAsStated]_vars

\* C23 for the lookups that get_values does not serve from its cache.
C23_SingleRowShapeUncached ==
    [][(IsGetValue(last') /\ last'.exc \notin BackendErrors /\ ~Hit(last'.call))
          => ShapedAsStated]_vars

----------------------------------------------------------------------------
(* Claims about ignored errors, checked under SpecIgnore. *)

\* The call asks for errors of a missing table or column to be ignored.
IgnoresMissing(l) ==
    \/ l.call.op = "sql" /\ "ignore_ddl" \in l.call.opts
    \/ l.call.op \in {"get_values", "get_value"} /\ "ignore" \in l.call.opts
    \/ l.call.op = "exists"

\* The backend raised such an error in the call.
MissingRaised(l) == l.fault.kind \in MissingKinds

Absence(l) == l.exc = NoExc /\ l.ret \in {"empty", "none"}

\* C24 as stated: an error for a missing column or table is turned into an
\* absence result by a call made with the ignore option, and propagates from
\* a call made without it.
C24_IgnoreMissing ==
    MissingRaised(last) =>
        IF IgnoresMissing(last) THEN Absence(last) ELSE last.exc = "DatabaseError"

\* The calls in which the option works: a statement on a backend other than
\* postgres whose error is not a ProgrammingError, and a lookup that is not
\* by a list of names.
Ignorable(l) ==
    IF l.call.op = "sql"
    THEN l.fault.db_type # "postgres" /\ l.fault.kind \notin ProgrammingKinds
    ELSE l.call.kw # "list"

\* C24 where the option works, and the error propagating everywhere else.
C24_IgnoreMissingWhereIgnorable ==
    MissingRaised(last) =>
        IF IgnoresMissing(last) /\ Ignorable(last)
        THEN Absence(last)
        ELSE last.exc = "DatabaseError"

----------------------------------------------------------------------------
(* Claims about the filters of a lookup, checked under SpecFilters. *)

IsLookupByClause(l, operator) ==
    /\ l.call.op = "get_values"
    /\ l.call.kw = "dict"
    /\ l.call.arg = operator

\* The predicates of the queries built in a call.
Built(l) == SelectSeq(l.log, LAMBDA ev : ev.e = "get_query")

Executed(l) == l.exc = NoExc /\ "run" \in l.call.opts

C25_WitnessNotIn ==
    /\ IsLookupByClause(last, "not in")
    /\ last.call.names = <<>>
    /\ Executed(last)
    /\ last.seen > 0

----------------------------------------------------------------------------
(* Claims about the transaction checks of sql(), checked under SpecGuard. *)

\* The backend transaction t after an event of a call.
Acted(t, ev) ==
    IF ev.e = "exec"
    THEN BackendApply([txn |-> t, committed |-> 0, issued |-> 0, seen |-> 0,
                       implicit |-> TRUE], Q(ev.kw, ev.arg)).txn
    ELSE IF ev.e \in {"connect", "close"} THEN <<>>
    ELSE t

\* The backend transaction after the first n events of a call that found it t.
RECURSIVE PendingAt(_, _, _)
PendingAt(t, log, n) == IF n = 0 THEN t ELSE Acted(PendingAt(t, log, n - 1), log[n])

IsPassed(ev) == ev.e \in {"exec", "execfail"}

\* C26 as stated: a statement that commits implicitly is passed to the
\* backend only when the backend transaction holds no uncommitted write.
C26_GuardedStatements ==
    [][\A i \in 1..Len(last'.log) :
          IsPassed(last'.log[i]) /\ last'.log[i].kw \in ImplicitCommitTypes
              => NumWrites(PendingAt(txn, last'.log, i - 1)) = 0]_vars

\* What the guard does ensure: sql() passes such a statement only when the
\* write counter is zero.
C26_GuardedByCounter ==
    [][IsSqlOf(last', ImplicitCommitTypes) /\ Passed(last'.log) # <<>>
          => transaction_writes = 0]_vars

\* C27 as stated: a commit or rollback statement resets the write counter
\* only when it executed; when its execution raises, the counter keeps the
\* value it had.
C27_ResetOnlyOnSuccess ==
    [][IsSqlOf(last', BoundaryTypes)
          => IF last'.exc = NoExc
             THEN transaction_writes' = 0
             ELSE transaction_writes' = transaction_writes]_vars

\* What the code does: the statement resets the counter once the session is
\* connected, whether the backend then executes it or not.
C27_ResetBeforeExecution ==
    [][IsSqlOf(last', BoundaryTypes)
          => IF Has(last'.log, "connectfail")
             THEN transaction_writes' = transaction_writes
             ELSE transaction_writes' = 0]_vars

\* Position i of the log of a call holds statement kw as the backend executed it.
ExecAt(log, i, kw) == log[i].e = "exec" /\ log[i].kw = kw

\* C28: the write that takes the counter over the ceiling is never passed to
\* the backend when TooManyWritesError is raised; with
\* auto_commit_on_many_writes it is passed only after the COMMIT and the
\* START TRANSACTION of the commit the ceiling triggers.
C28_CeilingBeforeWrite ==
    [][IsSqlOf(last', WriteTypes)
          => /\ last'.exc = "TooManyWritesError" => Passed(last'.log) = <<>>
             /\ \A m, i \in 1..Len(last'.log) :
                    /\ last'.log[m].e = "many_writes_commit"
                    /\ IsPassed(last'.log[i])
                    /\ last'.log[i].kw = last'.call.kw
                    => \E j, k \in m + 1..i - 1 :
                          j < k /\ ExecAt(last'.log, j, "commit") /\ ExecAt(last'.log, k, "start")
             /\ (transaction_writes = MAX_WRITES_PER_TRANSACTION /\ ~Has(last'.log, "connectfail"))
                    => IF auto_commit_on_many_writes
                       THEN Has(last'.log, "many_writes_commit")
                       ELSE last'.exc = "TooManyWritesError"]_vars

C28_Witness ==
    /\ IsSqlOf(last, WriteTypes)
    /\ Has(last.log, "many_writes_commit")
    /\ HasExec(last.log, last.call.kw)

C28_WitnessRaised ==
    /\ IsSqlOf(last, WriteTypes)
    /\ last.exc = "TooManyWritesError"

\* C29 as stated: after a sql() call that returns normally the write counter
\* is at most MAX_WRITES_PER_TRANSACTION.
C29_CounterUnderCeiling ==
    [][(last'.call.op = "sql" /\ last'.exc = NoExc)
          => transaction_writes' <= MAX_WRITES_PER_TRANSACTION]_vars

\* C29 for the statements that count: after a write through sql() that
\* returns normally the counter is at most the ceiling.
C29_CounterUnderCeilingAfterWrite ==
    [][(IsSqlOf(last', WriteTypes) /\ last'.exc = NoExc)
          => transaction_writes' <= MAX_WRITES_PER_TRANSACTION]_vars

----------------------------------------------------------------------------
(* Claims about the calls that end a transaction, checked under SpecDdl. *)

EndsTransaction(l) ==
    \/ l.call.op \in {"commit", "sql_ddl"}
    \/ l.call.op = "rollback" /\ l.call.arg = ""

\* C30: commit(), the rollback of the transaction and sql_ddl() never raise
\* ImplicitCommitError: whatever the writes pending, the counter is reset by
\* their COMMIT or ROLLBACK statement before START TRANSACTION or the DDL
\* statement meets the guard, and so these are passed to the backend.
C30_NoImplicitCommitError ==
    [][EndsTransaction(last')
          => /\ last'.exc # "ImplicitCommitError"
             /\ \A i \in 1..Len(last'.log) :
                    IsPassed(last'.log[i]) /\ last'.log[i].kw \in ImplicitCommitTypes
                        => \E j \in 1..i - 1 :
                              /\ last'.log[j].e = "reset_writes"
                              /\ IsPassed(last'.log[j + 1])
                              /\ last'.log[j + 1].kw \in BoundaryTypes
             /\ last'.exc = NoExc => HasExec(last'.log, "start")]_vars

C30_Witness ==
    /\ last.call.op = "sql_ddl"
    /\ last.exc = NoExc
    /\ \E j \in 1..Len(last.log) : last.log[j] = Ev("reset_writes", "", "writes")
    /\ HasExec(last.log, last.call.kw)

C30_WitnessCommit ==
    /\ last.call.op \in {"commit", "rollback"}
    /\ last.call.arg = ""
    /\ last.exc = NoExc
    /\ \E j \in 1..Len(last.log) : last.log[j] = Ev("reset_writes", "", "writes")

----------------------------------------------------------------------------
(* Claims about sql(auto_commit=1), checked under SpecGuard. *)

IsAutoCommitSql(l) ==
    /\ l.call.op = "sql"
    /\ "run" \in l.call.opts
    /\ "auto_commit" \in l.call.opts

\* The last statements a call passed are COMMIT, START TRANSACTION, statement
\* kw, COMMIT and START TRANSACTION, each executed.
CommittedAround(log, kw) ==
    LET n == Len(Passed(log))
        ends == <<"commit", "start", kw, "commit", "start">>
    IN  /\ n >= 5
        /\ \A i \in 1..5 : /\ Passed(log)[n - 5 + i].e = "exec"
                            /\ Passed(log)[n - 5 + i].kw = ends[i]

\* C31: sql(query, auto_commit=1) that returns normally has committed, then
\* executed the statement, then committed again: no write is pending, the
\* write counter is zero and a write is among the committed rows.  The
\* implicit-commit guard and the write count come before the first commit: a
\* call they reject has passed nothing to the backend, and the guard rejects
\* the statement for the writes the first commit would have committed.
C31_AutoCommit ==
    [][IsAutoCommitSql(last')
          => /\ last'.exc = NoExc
                  => /\ CommittedAround(last'.log, last'.call.kw)
                     /\ NumWrites(txn') = 0
                     /\ transaction_writes' = 0
                     /\ last'.call.kw \in WriteTypes
                            => committed' = committed + NumWrites(txn) + 1
             /\ last'.exc \in {"ImplicitCommitError", "TooManyWritesError"}
                  => Passed(last'.log) = <<>>
             /\ (/\ last'.call.kw \in ImplicitCommitTypes
                 /\ transaction_writes # 0
                 /\ ~Has(last'.log, "connectfail"))
                  => last'.exc = "ImplicitCommitError"]_vars

C31_Witness ==
    /\ IsAutoCommitSql(last)
    /\ last.call.kw \in WriteTypes
    /\ last.exc = NoExc
    /\ committed > 1

C31_WitnessRejected ==
    /\ IsAutoCommitSql(last)
    /\ last.exc = "ImplicitCommitError"

----------------------------------------------------------------------------
(* Claims about exceptions the scoped savepoint does not catch, checked    *)
(* under SpecScoped.                                                       *)

\* The call leaves `with savepoint(catch=DuplicateError):` with an exception
\* of the body that is no DuplicateError.
IsUncaughtExit(l) ==
    /\ l.call.op = "savepoint_exit"
    /\ "catch_some" \in l.call.opts
    /\ l.call.kw \notin {NoExc, "DuplicateError"}

\* C32: an exception of the body that the scoped savepoint does not catch
\* reaches the caller; the context manager passes no statement to the backend,
\* neither the rollback to the savepoint nor its release, so the savepoint,
\* when the body left it defined, stays defined and the writes of the body
\* stay pending.
C32_UncaughtLeavesSavepoint ==
    [][IsUncaughtExit(last')
          => /\ last'.exc = last'.call.kw
             /\ last'.log = <<>>
             /\ txn' = txn
             /\ transaction_writes' = transaction_writes
             /\ committed' = committed]_vars

C32_Witness ==
    /\ IsUncaughtExit(last)
    /\ LastMarker(txn, last.call.arg) # 0
    /\ LastMarker(txn, last.call.arg) < Len(txn)
    /\ IsWriteEntry(txn[Len(txn)])

----------------------------------------------------------------------------
(* Claims about the options of a cached lookup, checked under SpecHit. *)

\* The value a get_values call returned.
Value(l) == [ret |-> l.ret, seen |-> l.seen, form |-> l.form]

\* C33: a get_values call with cache=True and a string filter whose key is
\* stored returns the stored value, whatever its as_dict, ignore and run,
\* without building a query or touching the session, and no call changes or
\* removes a stored value: the value returned is the one the first such call
\* that returned stored, be it None or the text of a query.
C33_HitReturnsFirstStored ==
    [][/\ (last'.call.op = "get_values" /\ Hit(last'.call))
          => /\ last'.exc = NoExc
             /\ last'.log = <<>>
             /\ Value(last') = value_cache[KeyOf(last'.call)]
             /\ UNCHANGED <<conn, cursor, value_cache, transaction_writes, txn, committed>>
       /\ \A k \in DOMAIN value_cache :
              k \in DOMAIN value_cache' /\ value_cache'[k] = value_cache[k]
       /\ (last'.call.op = "get_values" /\ Keyed(last'.call) /\ ~Hit(last'.call)
              /\ last'.exc = NoExc)
          => value_cache'[KeyOf(last'.call)] = Value(last')]_vars

\* A keyed get_values call that built no query was served from the cache.
ServedFromCache(l) ==
    /\ l.call.op = "get_values"
    /\ Keyed(l.call)
    /\ l.exc = NoExc
    /\ l.log = <<>>

\* C33 witness: a call with as_dict that runs its query and ignores nothing
\* was served the None an earlier call stored.
C33_Witness ==
    /\ ServedFromCache(last)
    /\ {"run", "as_dict"} \subseteq last.call.opts
    /\ "ignore" \notin last.call.opts
    /\ last.ret = "none"

C33_WitnessQuery ==
    /\ ServedFromCache(last)
    /\ "run" \in last.call.opts
    /\ last.ret = "query"

C33_WitnessForm ==
    /\ ServedFromCache(last)
    /\ "as_dict" \in last.call.opts
    /\ last.ret = "rows"
    /\ ~last.form.dict

====
